---- MODULE Spec2Model ----
(***************************************************************************)
(* Tell-A-Friend: the fraud-scoring and referral-validation engine         *)
(* (actions/fraud/fraud-detection-actions.ts) and the purchase-creation    *)
(* workflow that consumes it (app/api/purchases/route.ts), with the        *)
(* writers of the users table (actions/db/users-actions.ts, POST           *)
(* /api/users) and createPurchaseAction called on its own.                 *)
(*                                                                         *)
(* Every `await` of the TypeScript code is one step of a request: the      *)
(* step performs the awaited read or write and then runs the synchronous   *)
(* code up to the next `await` (or to the return).  Amounts are in cents.  *)
(***************************************************************************)
EXTENDS Integers, Sequences, FiniteSets, TLC

VARIABLES users, purchases, rewards, notifications, req, posts, build

vars == <<users, purchases, rewards, notifications, req, posts, build>>
store == <<users, purchases, rewards, notifications>>

----------------------------------------------------------------------------
(* Bounds of the model *)

\* number of POST /api/purchases requests that may be started in one run
MaxPosts == 1
\* requests that can be in flight; one at a time
Reqs == {1}
\* the handler slots of the server: the second one is used only where
\* requests are served concurrently
Clients == {1, 2}

----------------------------------------------------------------------------
(* FRAUD_DETECTION_CONFIG and the literals of detectFraudAction *)

MIN_PURCHASE_AMOUNT == 50 * 100
MAX_PURCHASES_PER_IP == 5
MAX_PURCHASES_PER_DAY == 10
REQUIRE_EMAIL_VERIFICATION == TRUE

WeightBelowMinimum == 30
WeightEmailNotVerified == 40
WeightSelfReferral == 100
WeightExcessIp == 50
WeightExcessIp24h == 70
WeightMissingIp == 20
FraudThreshold == 70

FlagBelowMinimum == <<"Purchase amount below minimum threshold">>
FlagEmailNotVerified == <<"Email not verified">>
FlagUnableToVerify == <<"Unable to verify email status">>
FlagSelfReferral == <<"Self-referral detected">>
FlagExcessIp(n) == <<"Excessive purchases from IP address", n>>
FlagExcessIp24h(n) == <<"Too many purchases from IP in 24 hours", n>>
FlagMissingIp == <<"Missing IP address">>

\* error.message of a rejected database promise
DbErrorMessage == "database error"

----------------------------------------------------------------------------
(* The environment: referral codes, origins, amounts, the identity provider *)

CodeU1 == <<"A", "B", "C", "D", "2", "3", "4", "5">>
CodeU2 == <<"E", "F", "G", "H", "6", "7", "8", "9">>
CodeUnregistered == <<"Z", "Z", "Z", "Z", "9", "9", "9", "9">>
CodeHyphenated == <<"A", "B", "C", "D", "-", "2", "3", "4", "5">>
CodeShort == <<"A", "B", "C">>
CodeEmpty == <<>>
Codes == {CodeU1, CodeUnregistered, CodeHyphenated, CodeShort, CodeEmpty}

\* formatReferralCode: the display form XXXX-XXXX of an 8-character code
formatReferralCode(code) ==
    IF code = <<>> \/ Len(code) # 8
    THEN code
    ELSE SubSeq(code, 1, 4) \o <<"-">> \o SubSeq(code, 5, 8)

\* the codes a caller may hold: raw, or as the dashboard displays them
DisplayedCodes == Codes \cup { formatReferralCode(c) : c \in Codes }

IpA == "203.0.113.7"
IpUnknown == "unknown"
NoIp == ""
Ips == {NoIp, IpA}

Amounts == {4999, 5000, 10000}

\* the customerId validatePurchaseAction makes up: "temp-" + Date.now()
TempCustomerId == "temp-1"

\* Clerk's user directory: primaryEmailAddressId and emailAddresses of each
\* Clerk user; a clerkUserId outside the directory makes getUser throw
ClerkDirectory ==
    [ck \in {"ck1", "ck2", "ck4", "ck5", "ckA"} |->
        CASE ck = "ck1" -> [primaryEmailAddressId |-> "e1",
                            emailAddresses |-> {[id |-> "e1", status |-> "verified"]}]
          [] ck = "ck2" -> [primaryEmailAddressId |-> "e1",
                            emailAddresses |-> {[id |-> "e1", status |-> "unverified"]}]
          [] ck = "ck4" -> [primaryEmailAddressId |-> "e9",
                            emailAddresses |-> {[id |-> "e1", status |-> "verified"]}]
          [] ck = "ck5" -> [primaryEmailAddressId |-> "e1",
                            emailAddresses |-> {[id |-> "e1", status |-> "null"],
                                                [id |-> "e2", status |-> "verified"]}]
          [] OTHER      -> [primaryEmailAddressId |-> "e1",
                            emailAddresses |-> {[id |-> "e1", status |-> "verified"]}]]

User(id, ck, role, code) ==
    [id |-> id, clerkUserId |-> ck, role |-> role, referralCode |-> code,
     hasEmail |-> TRUE, hasPhone |-> TRUE]

\* the users table before any request: u1 verified, u2 unverified, u3 created
\* through the API without Clerk ("temp-" clerkUserId), u4 without a primary
\* email, u5 with an unverified primary and a verified secondary, u6 with an
\* empty clerkUserId, a1 the admin
InitialUsers ==
    { User("u1", "ck1", "customer", CodeU1),
      User("u2", "ck2", "customer", CodeU2),
      User("u3", "temp-u3", "customer", <<"null">>),
      User("u4", "ck4", "customer", <<"null">>),
      User("u5", "ck5", "customer", <<"null">>),
      User("u6", "", "customer", <<"null">>),
      User("a1", "ckA", "admin", <<"null">>) }

CustomerIds == {"u1", "u2", "u3", "u4", "u5", "u6", TempCustomerId}
ReferrerIds == {"u1", "u2"}

\* purchases that exist before any request, all from IpA: `all` rows of which
\* the first `recent` were created within the last 24 hours
History(all, recent) ==
    { [id |-> i, referrerId |-> "u2", customerId |-> "u4", ipAddress |-> IpA,
       recent |-> (i <= recent), status |-> "pending"] : i \in 1..all }

Histories ==
    { <<0, 0>>,
      <<MAX_PURCHASES_PER_IP - 1, MAX_PURCHASES_PER_IP - 1>>,
      <<MAX_PURCHASES_PER_IP, 0>>,
      <<MAX_PURCHASES_PER_DAY, MAX_PURCHASES_PER_DAY - 1>>,
      <<MAX_PURCHASES_PER_DAY, MAX_PURCHASES_PER_DAY>> }

----------------------------------------------------------------------------
(* Record Store queries *)

\* db.query.users.findFirst({ where: eq(usersTable.id, id) })
FindUserById(id) == { u \in users : u.id = id }

\* db.query.users.findFirst({ where: eq(usersTable.referralCode, code) })
FindUserByReferralCode(code) == { u \in users : u.referralCode = code }

\* select count() from purchases where ip_address = ip
CountPurchasesFromIp(ip) ==
    Cardinality({ p \in purchases : p.ipAddress = ip })

\* ... and created_at > NOW() - INTERVAL '1 day'
CountRecentPurchasesFromIp(ip) ==
    Cardinality({ p \in purchases : p.ipAddress = ip /\ p.recent })

----------------------------------------------------------------------------
(* One request: its kind, its position, its parameters, its locals *)

NoCodeResult ==
    [returned |-> FALSE, isSuccess |-> FALSE, message |-> "", isValid |-> FALSE,
     referrerId |-> ""]
NoFraudResult ==
    [returned |-> FALSE, isSuccess |-> FALSE, message |-> "", score |-> 0,
     flags |-> <<>>, isLikelyFraud |-> FALSE]
NoValidateResult ==
    [returned |-> FALSE, isSuccess |-> FALSE, message |-> "", messageFlags |-> <<>>,
     isValid |-> FALSE, fraudScore |-> 0]
NoPurchaseResult ==
    [returned |-> FALSE, isSuccess |-> FALSE, message |-> "", id |-> 0]
NoResponse == [status |-> 0, success |-> FALSE, message |-> ""]

\* a key that is not present in the data of an insert or update
Absent == <<"absent">>
NoData == [role |-> "", referralCode |-> Absent]
NoUserResult ==
    [returned |-> FALSE, isSuccess |-> FALSE, message |-> "", id |-> ""]

\* what a caller keeps of a finished validatePurchaseAction call: the
\* arguments, the answer, the reads that failed and the store it ran against
NoPrev ==
    [set |-> FALSE, referralCode |-> <<>>, ipAddress |-> "", amount |-> 0,
     isSuccess |-> FALSE, fraudScore |-> 0, message |-> "", threw |-> {},
     users |-> {}, purchases |-> {}]

IdleReq ==
    [kind |-> "none", pc |-> "idle", prev |-> NoPrev,
     referralCode |-> <<>>, ipAddress |-> "", amount |-> 0,
     customerId |-> "", referrerId |-> "",
     bodyCustomerId |-> "", routeCustomerId |-> "", routeReferrer |-> "",
     fraudScore |-> 0, flags |-> <<>>, customerClerkId |-> "",
     detectInvoked |-> FALSE, queries |-> {}, threw |-> {},
     codeResult |-> NoCodeResult, fraudResult |-> NoFraudResult,
     validateResult |-> NoValidateResult, purchaseResult |-> NoPurchaseResult,
     rewardCreated |-> FALSE, rewardAttempted |-> FALSE,
     autoRewardCreated |-> FALSE,
     meetsResult |-> FALSE,
     session |-> "", targetId |-> "", data |-> NoData,
     givenCode |-> Absent, codeGenerated |-> FALSE,
     currentId |-> "", currentRole |-> "", userResult |-> NoUserResult,
     status |-> "", reviewNotes |-> "",
     rewardResult |-> [returned |-> FALSE, isSuccess |-> FALSE,
                       message |-> "", data |-> {}],
     contact |-> [email |-> FALSE, phone |-> FALSE],
     notificationType |-> "", channels |-> {},
     notifyResult |-> [returned |-> FALSE, isSuccess |-> FALSE],
     codeChecks |-> [format |-> FALSE, action |-> FALSE,
                     displayed |-> <<>>, form |-> FALSE],
     response |-> NoResponse]

Done(q) == [q EXCEPT !.pc = "done"]

\* NextResponse.json({ success, message }, { status })
Respond(q, status, success, message) ==
    [q EXCEPT !.pc = "done",
              !.response = [status |-> status, success |-> success,
                            message |-> message]]

----------------------------------------------------------------------------
(* createPurchaseAction as POST /api/purchases calls it.  Two definitions  *)
(* of it exist under the same import path: the plain one (insert only) and *)
(* the checked one (referrer and customer lookups, self-referral check,    *)
(* automatic reward).  `build` says which one the deployment contains.     *)

\* route.ts 137-153: the purchase result decides; then createRewardAction
RouteAfterPurchase(q) ==
    IF ~q.purchaseResult.isSuccess
    THEN Respond(q, 500, FALSE, q.purchaseResult.message)
    ELSE [q EXCEPT !.pc = "rt_reward"]

\* the caller of createPurchaseAction: a direct call ends, the route goes on
AfterPurchase(q) ==
    IF q.kind = "purchase" THEN Done(q) ELSE RouteAfterPurchase(q)

PurchaseReturn(q, ok, message, id) ==
    AfterPurchase([q EXCEPT !.purchaseResult =
        [returned |-> TRUE, isSuccess |-> ok, message |-> message, id |-> id]])

\* an amount that is missing is let through
CreatePurchaseStart_NoAmountCheck(q) ==
    IF q.routeReferrer = "" \/ q.routeCustomerId = ""
    THEN PurchaseReturn(q, FALSE, "Missing required purchase information", 0)
    ELSE IF build = "checked"
         THEN [q EXCEPT !.pc = "cp_findReferrer"]
         ELSE [q EXCEPT !.pc = "cp_insert"]

\* the field check that opens both definitions, then the first await
CreatePurchaseStart(q) ==
    IF q.routeReferrer = "" \/ q.routeCustomerId = "" \/ q.amount = 0
    THEN PurchaseReturn(q, FALSE, "Missing required purchase information", 0)
    ELSE IF build = "checked"
         THEN [q EXCEPT !.pc = "cp_findReferrer"]
         ELSE [q EXCEPT !.pc = "cp_insert"]

----------------------------------------------------------------------------
(* validatePurchaseAction, detectFraudAction, validateReferralCodeAction   *)

\* the fraud check result is logged but does not stop the request
RouteAfterValidate_NoGate(q) == CreatePurchaseStart(q)

\* route.ts 115-127: a failed fraud check ends the request with status 400
RouteAfterValidate(q) ==
    IF ~q.validateResult.isSuccess
    THEN Respond(q, 400, FALSE, "Fraud detection")
    ELSE CreatePurchaseStart(q)

AfterValidate(q) ==
    IF q.kind = "validate" THEN Done(q) ELSE RouteAfterValidate(q)

ValidateReturn(q, ok, message, messageFlags, score) ==
    AfterValidate([q EXCEPT !.validateResult =
        [returned |-> TRUE, isSuccess |-> ok, message |-> message,
         messageFlags |-> messageFlags, isValid |-> ok, fraudScore |-> score]])

\* validatePurchaseAction, after detectFraudAction has returned
ValidateAfterFraud(q) ==
    LET f == q.fraudResult IN
    IF ~f.isSuccess
    THEN ValidateReturn(q, FALSE, f.message, <<>>, 0)
    ELSE IF f.isLikelyFraud
         THEN ValidateReturn(q, FALSE,
                             "Purchase flagged as potentially fraudulent",
                             f.flags, 0)
         ELSE ValidateReturn(q, TRUE, "Purchase validated successfully",
                             <<>>, f.score)

AfterDetect(q) ==
    IF q.kind = "detect" THEN Done(q) ELSE ValidateAfterFraud(q)

\* the boundary score taken as acceptable
IsLikelyFraud_Open(score) == score > FraudThreshold

\* A score of 70 or higher is considered likely fraud
IsLikelyFraud(score) == score >= FraudThreshold

\* detectFraudAction's successful return
DetectReturn(q) ==
    LET likely == IsLikelyFraud(q.fraudScore) IN
    AfterDetect([q EXCEPT !.fraudResult =
        [returned |-> TRUE, isSuccess |-> TRUE,
         message |-> IF likely THEN "Potential fraud detected"
                               ELSE "Fraud checks completed",
         score |-> q.fraudScore, flags |-> q.flags,
         isLikelyFraud |-> likely]])

\* detectFraudAction's outer catch
DetectFail(q) ==
    AfterDetect([q EXCEPT !.fraudResult =
        [returned |-> TRUE, isSuccess |-> FALSE, message |-> DbErrorMessage,
         score |-> 0, flags |-> <<>>, isLikelyFraud |-> FALSE]])

\* the newest flag put first
Trigger_Prepend(q, weight, flag) ==
    [q EXCEPT !.fraudScore = @ + weight, !.flags = <<flag>> \o @]

\* adds a triggered check to the running score and flag list
Trigger(q, weight, flag) ==
    [q EXCEPT !.fraudScore = @ + weight, !.flags = Append(@, flag)]

\* Check 3 (self-referral), then Check 4 up to its first await, or its
\* else-branch (missing IP) and the return
DetectSelfAndIp(q) ==
    LET q1 == IF q.customerId = q.referrerId
              THEN Trigger(q, WeightSelfReferral, FlagSelfReferral)
              ELSE q
    IN  IF q1.ipAddress # ""
        THEN [q1 EXCEPT !.pc = "df_countIp"]
        ELSE DetectReturn(Trigger(q1, WeightMissingIp, FlagMissingIp))

\* the minimum itself counted as too little
BelowMinimum_Inclusive(amount) == amount <= MIN_PURCHASE_AMOUNT

BelowMinimum(amount) == amount < MIN_PURCHASE_AMOUNT

\* return amount >= FRAUD_DETECTION_CONFIG.MIN_PURCHASE_AMOUNT
meetsMinimumPurchaseAmount(amount) == amount >= MIN_PURCHASE_AMOUNT

\* detectFraudAction from its entry to the first await: Check 1
DetectStart(q) ==
    LET q0 == [q EXCEPT !.detectInvoked = TRUE, !.fraudScore = 0,
                        !.flags = <<>>]
        q1 == IF BelowMinimum(q0.amount)
              THEN Trigger(q0, WeightBelowMinimum, FlagBelowMinimum)
              ELSE q0
    IN  IF REQUIRE_EMAIL_VERIFICATION
        THEN [q1 EXCEPT !.pc = "df_findCustomer"]
        ELSE DetectSelfAndIp(q1)

\* only a failed lookup stops the validation; an unknown code goes on
ValidateAfterCode_IgnoreValid(q) ==
    LET c == q.codeResult IN
    IF ~c.isSuccess
    THEN ValidateReturn(q, FALSE, "Invalid referral code", <<>>, 0)
    ELSE DetectStart([q EXCEPT !.customerId = TempCustomerId,
                               !.referrerId = c.referrerId])

\* validatePurchaseAction, after validateReferralCodeAction has returned
ValidateAfterCode(q) ==
    LET c == q.codeResult IN
    IF ~c.isSuccess \/ ~c.isValid
    THEN ValidateReturn(q, FALSE, "Invalid referral code", <<>>, 0)
    ELSE DetectStart([q EXCEPT !.customerId = TempCustomerId,
                               !.referrerId = c.referrerId])

AfterCode(q) ==
    IF q.kind = "code" THEN Done(q) ELSE ValidateAfterCode(q)

CodeReturn(q, ok, message, valid, referrerId) ==
    AfterCode([q EXCEPT !.codeResult =
        [returned |-> TRUE, isSuccess |-> ok, message |-> message,
         isValid |-> valid, referrerId |-> referrerId]])

\* only a code that is too short is turned away
MalformedCode_ShortOnly(code) == code = <<>> \/ Len(code) < 8

\* !referralCode || referralCode.length !== 8
MalformedCode(code) == code = <<>> \/ Len(code) # 8

\* validateReferralCodeAction from its entry to the first await
CodeStart(q) ==
    IF MalformedCode(q.referralCode)
    THEN CodeReturn(q, TRUE, "Invalid referral code format", FALSE, "")
    ELSE [q EXCEPT !.pc = "vr_findReferrer"]

\* the primary email of a Clerk user is missing, or has no verification
\* status, or a status other than "verified"
EmailNotVerified(clerkUser) ==
    LET primary == { e \in clerkUser.emailAddresses :
                       e.id = clerkUser.primaryEmailAddressId }
    IN  \/ primary = {}
        \/ \E e \in primary : e.status = "null" \/ e.status # "verified"

\* the limit itself still allowed
ExcessIp_Strict(n) == n > MAX_PURCHASES_PER_IP

ExcessIp(n) == n >= MAX_PURCHASES_PER_IP

\* the daily limit itself still allowed
ExcessIp24h_Strict(n) == n > MAX_PURCHASES_PER_DAY

ExcessIp24h(n) == n >= MAX_PURCHASES_PER_DAY

\* a step of request r that leaves the store alone
Step(r, q) ==
    /\ req' = [req EXCEPT ![r] = q]
    /\ UNCHANGED <<users, purchases, rewards, notifications, posts, build>>

Asked(q, query) == [q EXCEPT !.queries = @ \cup {query}]
Threw(q, query) == [q EXCEPT !.queries = @ \cup {query}, !.threw = @ \cup {query}]

\* the referrer lookup of validateReferralCodeAction resolves or rejects
VrFindReferrer(r) ==
    /\ req[r].pc = "vr_findReferrer"
    /\ \/ LET found == FindUserByReferralCode(req[r].referralCode)
              q == Asked(req[r], "findReferrerByCode")
          IN  IF found = {}
              THEN Step(r, CodeReturn(q, TRUE, "Referral code not found", FALSE, ""))
              ELSE \E u \in found :
                     Step(r, CodeReturn(q, TRUE, "Valid referral code", TRUE, u.id))
       \/ Step(r, CodeReturn(Threw(req[r], "findReferrerByCode"), FALSE,
                             "Failed to validate referral code", FALSE, ""))

\* the customer lookup outside the inner try: its rejection reaches the
\* outer catch
DfFindCustomer_Abort(r) ==
    /\ req[r].pc = "df_findCustomer"
    /\ \/ LET found == FindUserById(req[r].customerId)
              q == Asked(req[r], "findCustomer")
          IN  IF found = {}
              THEN Step(r, DetectSelfAndIp(q))
              ELSE \E u \in found :
                     IF u.clerkUserId # ""
                     THEN Step(r, [q EXCEPT !.pc = "df_clerk",
                                            !.customerClerkId = u.clerkUserId])
                     ELSE Step(r, DetectSelfAndIp(q))
       \/ Step(r, DetectFail(Threw(req[r], "findCustomer")))

\* Check 2, first await: the customer lookup resolves or rejects
DfFindCustomer(r) ==
    /\ req[r].pc = "df_findCustomer"
    /\ \/ LET found == FindUserById(req[r].customerId)
              q == Asked(req[r], "findCustomer")
          IN  IF found = {}
              THEN Step(r, DetectSelfAndIp(q))
              ELSE \E u \in found :
                     IF u.clerkUserId # ""
                     THEN Step(r, [q EXCEPT !.pc = "df_clerk",
                                            !.customerClerkId = u.clerkUserId])
                     ELSE Step(r, DetectSelfAndIp(q))
       \/ Step(r, DetectSelfAndIp(
                    [Threw(req[r], "findCustomer") EXCEPT
                        !.flags = Append(@, FlagUnableToVerify)]))

\* without the inner try: a rejected getUser reaches the outer catch
DfClerk_NoInnerCatch(r) ==
    /\ req[r].pc = "df_clerk"
    /\ \/ /\ req[r].customerClerkId \in DOMAIN ClerkDirectory
          /\ LET q == Asked(req[r], "clerkGetUser") IN
             IF EmailNotVerified(ClerkDirectory[req[r].customerClerkId])
             THEN Step(r, DetectSelfAndIp(
                            Trigger(q, WeightEmailNotVerified, FlagEmailNotVerified)))
             ELSE Step(r, DetectSelfAndIp(q))
       \/ Step(r, DetectFail(Threw(req[r], "clerkGetUser")))

\* Check 2, second await: clerk.users.getUser resolves or rejects
DfClerk(r) ==
    /\ req[r].pc = "df_clerk"
    /\ \/ /\ req[r].customerClerkId \in DOMAIN ClerkDirectory
          /\ LET q == Asked(req[r], "clerkGetUser") IN
             IF EmailNotVerified(ClerkDirectory[req[r].customerClerkId])
             THEN Step(r, DetectSelfAndIp(
                            Trigger(q, WeightEmailNotVerified, FlagEmailNotVerified)))
             ELSE Step(r, DetectSelfAndIp(q))
       \/ Step(r, DetectSelfAndIp(
                    [Threw(req[r], "clerkGetUser") EXCEPT
                        !.flags = Append(@, FlagUnableToVerify)]))

\* a rejected count taken as a count of 0
DfCountIp_Absorb(r) ==
    /\ req[r].pc = "df_countIp"
    /\ \/ LET n == CountPurchasesFromIp(req[r].ipAddress)
              q == [Asked(req[r], "countIp") EXCEPT !.pc = "df_countRecent"]
          IN  IF ExcessIp(n)
              THEN Step(r, Trigger(q, WeightExcessIp, FlagExcessIp(n)))
              ELSE Step(r, q)
       \/ Step(r, [Threw(req[r], "countIp") EXCEPT !.pc = "df_countRecent"])

\* the attempt is recorded as a purchase so that later counts see it
DfCountIp_Record(r) ==
    /\ req[r].pc = "df_countIp"
    /\ LET n == CountPurchasesFromIp(req[r].ipAddress)
           q == [Asked(req[r], "countIp") EXCEPT !.pc = "df_countRecent"]
       IN  /\ req' = [req EXCEPT ![r] =
                  IF ExcessIp(n) THEN Trigger(q, WeightExcessIp, FlagExcessIp(n))
                                 ELSE q]
           /\ purchases' = purchases \cup
                  {[id |-> Cardinality(purchases) + 1,
                    referrerId |-> req[r].referrerId,
                    customerId |-> req[r].customerId,
                    ipAddress |-> req[r].ipAddress,
                    recent |-> TRUE, status |-> "pending"]}
           /\ UNCHANGED <<users, rewards, notifications, posts, build>>

\* Check 4, first await: the all-time count for the IP resolves or rejects
DfCountIp(r) ==
    /\ req[r].pc = "df_countIp"
    /\ \/ LET n == CountPurchasesFromIp(req[r].ipAddress)
              q == [Asked(req[r], "countIp") EXCEPT !.pc = "df_countRecent"]
          IN  IF ExcessIp(n)
              THEN Step(r, Trigger(q, WeightExcessIp, FlagExcessIp(n)))
              ELSE Step(r, q)
       \/ Step(r, DetectFail(Threw(req[r], "countIp")))

\* Check 4, second await: the 24-hour count resolves or rejects
DfCountRecent(r) ==
    /\ req[r].pc = "df_countRecent"
    /\ \/ LET n == CountRecentPurchasesFromIp(req[r].ipAddress)
              q == Asked(req[r], "countRecent")
          IN  IF ExcessIp24h(n)
              THEN Step(r, DetectReturn(Trigger(q, WeightExcessIp24h, FlagExcessIp24h(n))))
              ELSE Step(r, DetectReturn(q))
       \/ Step(r, DetectFail(Threw(req[r], "countRecent")))

----------------------------------------------------------------------------
(* POST /api/purchases and the actions it calls after validation *)

CodeG1 == <<"G", "G", "G", "G", "2", "2", "2", "2">>
\* what generateReferralCode may return for a new customer
GeneratedCodes == {CodeG1, CodeU1}

\* the session of the requests the route sends to /api/users
Sessions == {"none", "ck1", "ckA"}

HeaderIps == {NoIp, IpA}
BodyAmounts == Amounts \cup {0}
BodyCustomerIds == {"", "u1", "u2"}

NewId(table) == Cardinality(table) + 1
NewUserId == IF \E u \in users : u.id = "g1" THEN "g2" ELSE "g1"

\* getAllUsersAction(role): only an authenticated admin may list users
GetAllUsers(session, role) ==
    LET current == { u \in users : u.clerkUserId = session } IN
    IF session = "none" \/ current = {} \/ \E u \in current : u.role # "admin"
    THEN [isSuccess |-> FALSE, data |-> {}]
    ELSE [isSuccess |-> TRUE, data |-> { u \in users : u.role = role }]

\* GET /api/users?referralCode=...: the customers holding that code
GetUsersByReferralCode(session, code) ==
    LET res == GetAllUsers(session, "customer") IN
    IF session = "none" \/ ~res.isSuccess
    THEN [success |-> FALSE, data |-> {}]
    ELSE [success |-> TRUE,
          data |-> { u \in res.data : u.referralCode = code }]

\* sendReferralUsedNotificationAction: the channel type it derives from the
\* contact information that is present
NotificationType(hasEmail, hasPhone) ==
    LET t1 == IF hasEmail THEN "email" ELSE "in_app"
    IN  IF hasPhone
        THEN IF t1 = "in_app" THEN "sms"
             ELSE IF t1 = "email" THEN "all" ELSE t1
        ELSE t1

\* sendNotificationAction creates the in-app row for these types only
CreatesInApp(type) == type = "in_app" \/ type = "all"

PurchaseRow(q) ==
    [id |-> NewId(purchases), referrerId |-> q.routeReferrer,
     customerId |-> q.routeCustomerId, ipAddress |-> q.ipAddress,
     recent |-> TRUE, status |-> "pending"]

RewardRow(purchaseId, referrerId) ==
    [id |-> NewId(rewards), purchaseId |-> purchaseId,
     referrerId |-> referrerId, status |-> "pending",
     reviewedBy |-> "", reviewNotes |-> ""]

NotificationRow(userId, n) ==
    [id |-> NewId(notifications) + n, userId |-> userId, type |-> "in_app",
     status |-> "pending"]

\* route.ts 74-113: the customer is known; validatePurchaseAction is called
RouteValidate(q, customerId) ==
    CodeStart([q EXCEPT !.routeCustomerId = customerId])

\* the handler from its entry to its first fetch: the request of slot r
PostReceived(r, headerIp, code, amount, hasName, bodyCustomerId) ==
    /\ req[r].pc = "idle"
    /\ LET q == [IdleReq EXCEPT !.kind = "post",
                   !.ipAddress = IF headerIp = "" THEN IpUnknown ELSE headerIp,
                   !.referralCode = code, !.amount = amount,
                   !.bodyCustomerId = bodyCustomerId]
       IN  \/ req' = [req EXCEPT ![r] = Respond(q, 500, FALSE, "invalid JSON")]
           \/ IF code = <<>> \/ amount = 0 \/ amount <= 0 \/ ~hasName
              THEN req' = [req EXCEPT ![r] =
                              Respond(q, 400, FALSE, "Missing required fields")]
              ELSE req' = [req EXCEPT ![r] = [q EXCEPT !.pc = "rt_fetchReferrer"]]

\* one of the requests of a run that serves them one after the other
StartPost(r, headerIp, code, amount, hasName, bodyCustomerId) ==
    /\ posts < MaxPosts
    /\ posts' = posts + 1
    /\ PostReceived(r, headerIp, code, amount, hasName, bodyCustomerId)
    /\ UNCHANGED <<users, purchases, rewards, notifications, build>>

\* a request that arrives while the other slot may be serving one
StartConcurrentPost(r, headerIp, code, amount, bodyCustomerId) ==
    /\ PostReceived(r, headerIp, code, amount, TRUE, bodyCustomerId)
    /\ UNCHANGED <<users, purchases, rewards, notifications, posts, build>>

\* GET /api/users?referralCode= answers; then the customer is taken from the
\* body or a customer record is requested
RtFetchReferrer(r) ==
    /\ req[r].pc = "rt_fetchReferrer"
    /\ \/ Step(r, Respond(Threw(req[r], "fetchReferrer"), 500, FALSE, "fetch failed"))
       \/ \E session \in Sessions :
            LET res == GetUsersByReferralCode(session, req[r].referralCode) IN
            IF ~res.success \/ res.data = {}
            THEN Step(r, Respond(req[r], 400, FALSE, "Invalid referral code"))
            ELSE \E u \in res.data :
                   LET q == [req[r] EXCEPT !.routeReferrer = u.id] IN
                   IF q.bodyCustomerId = ""
                   THEN Step(r, [q EXCEPT !.pc = "rt_createCustomer"])
                   ELSE Step(r, RouteValidate(q, q.bodyCustomerId))
       \/ Step(r, Respond(Threw(req[r], "fetchReferrer"), 400, FALSE,
                          "Invalid referral code"))

\* POST /api/users answers: createUserAction inserted the guest customer, or
\* the insert was rejected (a duplicate referral code or phone, a lost
\* connection)
RtCreateCustomer(r) ==
    /\ req[r].pc = "rt_createCustomer"
    /\ \/ Step(r, Respond(Threw(req[r], "createCustomer"), 500, FALSE,
                          "Failed to create customer record"))
       \/ \E code \in GeneratedCodes :
            /\ FindUserByReferralCode(code) = {}
            /\ users' = users \cup {User(NewUserId, "temp-guest", "customer", code)}
            /\ req' = [req EXCEPT ![r] = RouteValidate(req[r], NewUserId)]
            /\ UNCHANGED <<purchases, rewards, notifications, posts, build>>

\* checked createPurchaseAction: the referrer lookup
CpFindReferrer(r) ==
    /\ req[r].pc = "cp_findReferrer"
    /\ \/ LET q == Asked(req[r], "cpFindReferrer") IN
          IF FindUserById(req[r].routeReferrer) = {}
          THEN Step(r, PurchaseReturn(q, FALSE, "Referrer not found", 0))
          ELSE Step(r, [q EXCEPT !.pc = "cp_findCustomer"])
       \/ Step(r, PurchaseReturn(Threw(req[r], "cpFindReferrer"), FALSE,
                                 DbErrorMessage, 0))

\* checked createPurchaseAction: the customer lookup, then the self-referral
\* check
CpFindCustomer(r) ==
    /\ req[r].pc = "cp_findCustomer"
    /\ \/ LET q == Asked(req[r], "cpFindCustomer") IN
          IF FindUserById(req[r].routeCustomerId) = {}
          THEN Step(r, PurchaseReturn(q, FALSE, "Customer not found", 0))
          ELSE IF req[r].routeReferrer = req[r].routeCustomerId
               THEN Step(r, PurchaseReturn(q, FALSE,
                                           "Self-referrals are not allowed", 0))
               ELSE Step(r, [q EXCEPT !.pc = "cp_insert"])
       \/ Step(r, PurchaseReturn(Threw(req[r], "cpFindCustomer"), FALSE,
                                 DbErrorMessage, 0))

\* db.insert(purchasesTable): the row is stored when its referrer and its
\* customer exist (foreign keys), or the insert is rejected
CpInsert(r) ==
    /\ req[r].pc = "cp_insert"
    /\ \/ /\ FindUserById(req[r].routeReferrer) # {}
          /\ FindUserById(req[r].routeCustomerId) # {}
          /\ purchases' = purchases \cup {PurchaseRow(req[r])}
          /\ LET q == Asked(req[r], "cpInsert") IN
             req' = [req EXCEPT ![r] =
                IF build = "checked"
                THEN [q EXCEPT !.pc = "cp_reward",
                               !.purchaseResult.id = NewId(purchases)]
                ELSE PurchaseReturn(q, TRUE, "Purchase created successfully",
                                    NewId(purchases))]
          /\ UNCHANGED <<users, rewards, notifications, posts, build>>
       \/ Step(r, PurchaseReturn(Threw(req[r], "cpInsert"), FALSE,
                                 DbErrorMessage, 0))

\* a reward that cannot be created takes the purchase with it
CpReward_FailsPurchase(r) ==
    /\ req[r].pc = "cp_reward"
    /\ LET q0 == [req[r] EXCEPT !.rewardAttempted = TRUE]
           q == PurchaseReturn(q0, TRUE, "Purchase created successfully",
                               req[r].purchaseResult.id)
       IN  \/ /\ rewards' = rewards \cup
                    {RewardRow(req[r].purchaseResult.id, req[r].routeReferrer)}
              /\ req' = [req EXCEPT ![r] = [q EXCEPT !.autoRewardCreated = TRUE]]
              /\ UNCHANGED <<users, purchases, notifications, posts, build>>
           \/ Step(r, PurchaseReturn(q0, FALSE, "Failed to create reward", 0))

\* checked createPurchaseAction: the automatic pending reward; its failure
\* does not fail the purchase
CpReward(r) ==
    /\ req[r].pc = "cp_reward"
    /\ LET q0 == [req[r] EXCEPT !.rewardAttempted = TRUE]
           q == PurchaseReturn(q0, TRUE, "Purchase created successfully",
                               req[r].purchaseResult.id)
       IN  \/ /\ rewards' = rewards \cup
                    {RewardRow(req[r].purchaseResult.id, req[r].routeReferrer)}
              /\ req' = [req EXCEPT ![r] = [q EXCEPT !.autoRewardCreated = TRUE]]
              /\ UNCHANGED <<users, purchases, notifications, posts, build>>
           \/ Step(r, q)

\* route.ts 144-158: createRewardAction; its failure is logged only
RtReward(r) ==
    /\ req[r].pc = "rt_reward"
    /\ \/ /\ rewards' = rewards \cup
                {RewardRow(req[r].purchaseResult.id, req[r].routeReferrer)}
          /\ req' = [req EXCEPT ![r] = [req[r] EXCEPT !.pc = "rt_notifyReferrer",
                                                      !.rewardCreated = TRUE]]
          /\ UNCHANGED <<users, purchases, notifications, posts, build>>
       \/ Step(r, [Threw(req[r], "createReward") EXCEPT !.pc = "rt_notifyReferrer"])

\* route.ts 160-172: sendReferralUsedNotificationAction for the referrer
RtNotifyReferrer(r) ==
    /\ req[r].pc = "rt_notifyReferrer"
    /\ LET q == [req[r] EXCEPT !.pc = "rt_fetchAdmins"] IN
       \/ \E u \in FindUserById(req[r].routeReferrer) :
            /\ CreatesInApp(NotificationType(u.hasEmail, u.hasPhone))
            /\ notifications' = notifications \cup {NotificationRow(u.id, 0)}
            /\ req' = [req EXCEPT ![r] = q]
            /\ UNCHANGED <<users, purchases, rewards, posts, build>>
       \/ Step(r, q)

\* route.ts 174-212: GET /api/users?role=admin answers
RtFetchAdmins(r) ==
    /\ req[r].pc = "rt_fetchAdmins"
    /\ \/ \E session \in Sessions :
            LET res == GetAllUsers(session, "admin") IN
            IF res.isSuccess /\ res.data # {}
            THEN Step(r, [req[r] EXCEPT !.pc = "rt_notifyAdmins"])
            ELSE Step(r, Respond(req[r], 200, TRUE, "Purchase created successfully"))
       \/ Step(r, Respond(req[r], 200, TRUE, "Purchase created successfully"))

\* sendAdminReferralNotificationAction: one in-app row per admin whose
\* insert succeeded
RtNotifyAdmins(r) ==
    /\ req[r].pc = "rt_notifyAdmins"
    /\ \E S \in SUBSET { u.id : u \in { a \in users : a.role = "admin" } } :
         /\ notifications' = notifications \cup
               { NotificationRow(a, 1) : a \in S }
         /\ req' = [req EXCEPT ![r] =
               Respond(req[r], 200, TRUE, "Purchase created successfully")]
         /\ UNCHANGED <<users, purchases, rewards, posts, build>>

----------------------------------------------------------------------------
(* Calls that enter the fraud module directly *)

StartValidateCode(r, code) ==
    /\ req[r].pc = "idle"
    /\ Step(r, CodeStart([IdleReq EXCEPT !.kind = "code", !.referralCode = code]))

StartDetect(r, amount, ip, customerId, referrerId) ==
    /\ req[r].pc = "idle"
    /\ Step(r, DetectStart([IdleReq EXCEPT !.kind = "detect", !.amount = amount,
                              !.ipAddress = ip, !.customerId = customerId,
                              !.referrerId = referrerId]))

StartValidatePurchase(r, code, ip, amount) ==
    /\ req[r].pc = "idle"
    /\ Step(r, CodeStart([IdleReq EXCEPT !.kind = "validate",
                            !.referralCode = code, !.ipAddress = ip,
                            !.amount = amount]))

\* createPurchaseAction called with the data of a purchase
StartCreatePurchase(r, referrerId, customerId, amount) ==
    /\ req[r].pc = "idle"
    /\ posts < MaxPosts
    /\ posts' = posts + 1
    /\ req' = [req EXCEPT ![r] =
          CreatePurchaseStart([IdleReq EXCEPT !.kind = "purchase",
                                 !.routeReferrer = referrerId,
                                 !.routeCustomerId = customerId,
                                 !.amount = amount])]
    /\ UNCHANGED <<users, purchases, rewards, notifications, build>>

\* meetsMinimumPurchaseAmount is synchronous: called and returned in one step
CallMeetsMinimum(r, amount) ==
    /\ req[r].pc = "idle"
    /\ Step(r, Done([IdleReq EXCEPT !.kind = "meets", !.amount = amount,
                        !.meetsResult = meetsMinimumPurchaseAmount(amount)]))

\* the result has been handed to the caller; the call's frame is gone
Finish(r) ==
    /\ req[r].pc = "done"
    /\ Step(r, IdleReq)

----------------------------------------------------------------------------
(* users-actions.ts and POST /api/users: the writers of the users table    *)

UserReturn(q, ok, message, id) ==
    [q EXCEPT !.pc = "done",
              !.userResult = [returned |-> TRUE, isSuccess |-> ok,
                              message |-> message, id |-> id]]

\* a code for every user that comes without one, whatever the role
CreateUserStart_AnyRole(q, generated) ==
    LET generate == q.data.referralCode = Absent IN
    [q EXCEPT !.pc = "cu_insert",
              !.givenCode = q.data.referralCode,
              !.codeGenerated = generate,
              !.data.referralCode = IF generate THEN generated ELSE @]

\* createUserAction up to its insert: a customer without a code gets one
\* from generateReferralCode
CreateUserStart(q, generated) ==
    LET generate == q.data.role = "customer" /\ q.data.referralCode = Absent IN
    [q EXCEPT !.pc = "cu_insert",
              !.givenCode = q.data.referralCode,
              !.codeGenerated = generate,
              !.data.referralCode = IF generate THEN generated ELSE @]

\* createUserAction called with the data of a new user (app/layout.tsx
\* passes a generated code of its own)
StartCreateUser(r, role, code, generated) ==
    /\ req[r].pc = "idle"
    /\ Step(r, CreateUserStart(
                  [IdleReq EXCEPT !.kind = "createUser",
                                  !.session = "temp-new",
                                  !.data = [role |-> role, referralCode |-> code]],
                  generated))

\* POST /api/users: name, email and phone are required; a customer gets a
\* generated code; the rest is createUserAction
StartPostUser(r, hasFields, role, generated) ==
    /\ req[r].pc = "idle"
    /\ LET q == [IdleReq EXCEPT !.kind = "postUser", !.session = "temp-new",
                    !.data = [role |-> role,
                              referralCode |-> IF role = "customer"
                                               THEN generated ELSE Absent]]
       IN  IF ~hasFields
           THEN Step(r, UserReturn(q, FALSE, "Name, email, and phone are required", ""))
           ELSE Step(r, CreateUserStart(q, generated))

\* the code column of a row: null when the data has no referralCode
CodeColumn(data) ==
    IF data.referralCode = Absent THEN <<"null">> ELSE data.referralCode

\* the unique constraint on users.referral_code lets this code in for row id
CodeIsFree(code, id) ==
    code = <<"null">> \/ \A u \in users : u.referralCode = code => u.id = id

\* db.insert(usersTable).values(data).returning(): the row is stored when no
\* unique constraint is violated, or the insert is rejected
CuInsert(r) ==
    /\ req[r].pc = "cu_insert"
    /\ \/ /\ CodeIsFree(CodeColumn(req[r].data), NewUserId)
          /\ \A u \in users : u.id # NewUserId
          /\ users' = users \cup
                {User(NewUserId, req[r].session, req[r].data.role,
                      CodeColumn(req[r].data))}
          /\ req' = [req EXCEPT ![r] =
                UserReturn(req[r], TRUE, "User created successfully", NewUserId)]
          /\ UNCHANGED <<purchases, rewards, notifications, posts, build>>
       \/ Step(r, UserReturn(req[r], FALSE, DbErrorMessage, ""))

\* createInvitedUserAction from its entry (auth) to getUserByClerkIdAction
StartCreateInvited(r, session, role) ==
    /\ req[r].pc = "idle"
    /\ LET q == [IdleReq EXCEPT !.kind = "createInvited", !.session = session,
                    !.data = [role |-> role, referralCode |-> Absent]]
       IN  IF session = "none"
           THEN Step(r, UserReturn(q, FALSE, "Unauthorized", ""))
           ELSE Step(r, [q EXCEPT !.pc = "ci_getCurrent"])

\* only admins go on, to Clerk's getUserList
CiGetCurrent(r) ==
    /\ req[r].pc = "ci_getCurrent"
    /\ \/ LET current == { u \in users : u.clerkUserId = req[r].session } IN
          IF current = {} \/ \E u \in current : u.role # "admin"
          THEN Step(r, UserReturn(req[r], FALSE,
                                  "Only admins can create invited users", ""))
          ELSE Step(r, [req[r] EXCEPT !.pc = "ci_clerkList",
                                       !.currentRole = "admin"])
       \/ Step(r, UserReturn(req[r], FALSE,
                              "Only admins can create invited users", ""))

\* clerk.users.getUserList: the email is taken, or free, or Clerk fails
CiClerkList(r) ==
    /\ req[r].pc = "ci_clerkList"
    /\ \/ Step(r, UserReturn(req[r], FALSE,
                              "A user with this email already exists", ""))
       \/ Step(r, [req[r] EXCEPT !.pc = "ci_clerkCreate"])
       \/ Step(r, UserReturn(req[r], FALSE, "Failed to create invited user", ""))

\* clerk.users.createUser, then the code of a customer is generated and
\* createUserAction is called with the Clerk id of the new user
CiClerkCreate(r) ==
    /\ req[r].pc = "ci_clerkCreate"
    /\ \/ \E generated \in GeneratedCodes :
            Step(r, CreateUserStart(
                      [req[r] EXCEPT !.session = "ckNew",
                                     !.data.referralCode =
                                         IF req[r].data.role = "customer"
                                         THEN generated ELSE Absent],
                      generated))
       \/ Step(r, UserReturn(req[r], FALSE, "Failed to create invited user", ""))

\* updateUserAction from its entry (auth) to getUserByClerkIdAction
StartUpdateUser(r, session, id, data) ==
    /\ req[r].pc = "idle"
    /\ LET q == [IdleReq EXCEPT !.kind = "updateUser", !.session = session,
                    !.targetId = id, !.data = data]
       IN  IF session = "none"
           THEN Step(r, UserReturn(q, FALSE, "Unauthorized", ""))
           ELSE Step(r, [q EXCEPT !.pc = "uu_getCurrent"])

\* getUserByClerkIdAction(userId) answers
UuGetCurrent(r) ==
    /\ req[r].pc = "uu_getCurrent"
    /\ \/ LET current == { u \in users : u.clerkUserId = req[r].session } IN
          IF current = {}
          THEN Step(r, UserReturn(req[r], FALSE, "Failed to authenticate user", ""))
          ELSE \E u \in current :
                 Step(r, [req[r] EXCEPT !.pc = "uu_getTarget",
                                        !.currentId = u.id,
                                        !.currentRole = u.role])
       \/ Step(r, UserReturn(req[r], FALSE, "Failed to authenticate user", ""))

\* getUserByIdAction(id) answers (its result is not used); then the two
\* authorization checks
UuGetTarget(r) ==
    /\ req[r].pc = "uu_getTarget"
    /\ IF req[r].currentRole # "admin" /\ req[r].currentId # req[r].targetId
       THEN Step(r, UserReturn(req[r], FALSE, "Unauthorized to update this user", ""))
       ELSE IF req[r].data.role # "" /\ req[r].currentRole # "admin"
            THEN Step(r, UserReturn(req[r], FALSE,
                                    "Only admins can update user roles", ""))
            ELSE Step(r, [req[r] EXCEPT !.pc = "uu_update"])

\* the row after .set({ ...data, updatedAt }): only the keys present in
\* data are written
UpdatedRow(u, data) ==
    [u EXCEPT !.role = IF data.role = "" THEN @ ELSE data.role,
              !.referralCode = IF data.referralCode = Absent
                               THEN @ ELSE data.referralCode]

\* db.update(usersTable).set(...).where(id).returning()
UuUpdate(r) ==
    /\ req[r].pc = "uu_update"
    /\ \/ LET target == FindUserById(req[r].targetId) IN
          IF target = {}
          THEN Step(r, UserReturn(req[r], FALSE, "User not found for update", ""))
          ELSE \E u \in target :
                 /\ CodeIsFree(UpdatedRow(u, req[r].data).referralCode, u.id)
                 /\ users' = (users \ {u}) \cup {UpdatedRow(u, req[r].data)}
                 /\ req' = [req EXCEPT ![r] =
                       UserReturn(req[r], TRUE, "User updated successfully", u.id)]
                 /\ UNCHANGED <<purchases, rewards, notifications, posts, build>>
       \/ Step(r, UserReturn(req[r], FALSE, "Failed to update user", ""))

----------------------------------------------------------------------------
(* rewards-actions.ts: creating, listing and reviewing rewards             *)

RewardReturn(q, ok, message, data) ==
    [q EXCEPT !.pc = "done",
              !.rewardResult = [returned |-> TRUE, isSuccess |-> ok,
                                message |-> message, data |-> data]]

\* createRewardAction called with the data its callers build: a pending
\* reward for a purchase and its referrer
StartCreateReward(r, purchaseId, referrerId) ==
    /\ req[r].pc = "idle"
    /\ Step(r, [IdleReq EXCEPT !.kind = "createReward", !.pc = "cr_insert",
                               !.targetId = purchaseId,
                               !.referrerId = referrerId])

\* db.insert(rewardsTable).values(data).returning(), or the failure the
\* action turns into its answer
CrInsert(r) ==
    /\ req[r].pc = "cr_insert"
    /\ \/ LET row == RewardRow(req[r].targetId, req[r].referrerId) IN
          /\ rewards' = rewards \cup {row}
          /\ req' = [req EXCEPT ![r] =
                RewardReturn(req[r], TRUE, "Reward created successfully", {row})]
          /\ UNCHANGED <<users, purchases, notifications, posts, build>>
       \/ Step(r, RewardReturn(req[r], FALSE, "Failed to create reward", {}))

\* getPendingRewardsAction from its entry (auth) to getUserByClerkIdAction
StartGetPending(r, session) ==
    /\ req[r].pc = "idle"
    /\ LET q == [IdleReq EXCEPT !.kind = "getPending", !.session = session] IN
       IF session = "none"
       THEN Step(r, RewardReturn(q, FALSE, "Unauthorized", {}))
       ELSE Step(r, [q EXCEPT !.pc = "gp_getCurrent"])

\* only admins go on to the query
GpGetCurrent(r) ==
    /\ req[r].pc = "gp_getCurrent"
    /\ \/ LET current == { u \in users : u.clerkUserId = req[r].session } IN
          IF current = {} \/ \E u \in current : u.role # "admin"
          THEN Step(r, RewardReturn(req[r], FALSE,
                                    "Only admins can view pending rewards", {}))
          ELSE Step(r, [req[r] EXCEPT !.pc = "gp_query"])
       \/ Step(r, RewardReturn(req[r], FALSE,
                                "Only admins can view pending rewards", {}))

\* findMany where status = 'pending'
GpQuery(r) ==
    /\ req[r].pc = "gp_query"
    /\ \/ Step(r, RewardReturn(req[r], TRUE,
                               "Pending rewards retrieved successfully",
                               { w \in rewards : w.status = "pending" }))
       \/ Step(r, RewardReturn(req[r], FALSE, "Failed to get pending rewards", {}))

\* updateRewardStatusAction from its entry (auth) to getUserByClerkIdAction
StartUpdateReward(r, session, id, status, reviewNotes) ==
    /\ req[r].pc = "idle"
    /\ LET q == [IdleReq EXCEPT !.kind = "updateReward", !.session = session,
                    !.targetId = id, !.status = status,
                    !.reviewNotes = reviewNotes]
       IN  IF session = "none"
           THEN Step(r, RewardReturn(q, FALSE, "Unauthorized", {}))
           ELSE Step(r, [q EXCEPT !.pc = "ur_getCurrent"])

\* whoever is signed in goes on to the update
UrGetCurrent_AnyRole(r) ==
    /\ req[r].pc = "ur_getCurrent"
    /\ \/ LET current == { u \in users : u.clerkUserId = req[r].session } IN
          IF current = {}
          THEN Step(r, RewardReturn(req[r], FALSE,
                                    "Only admins can update reward status", {}))
          ELSE \E u \in current :
                 Step(r, [req[r] EXCEPT !.pc = "ur_update",
                                        !.currentId = u.id,
                                        !.currentRole = u.role])
       \/ Step(r, RewardReturn(req[r], FALSE,
                                "Only admins can update reward status", {}))

\* only admins go on to the update
UrGetCurrent(r) ==
    /\ req[r].pc = "ur_getCurrent"
    /\ \/ LET current == { u \in users : u.clerkUserId = req[r].session } IN
          IF current = {} \/ \E u \in current : u.role # "admin"
          THEN Step(r, RewardReturn(req[r], FALSE,
                                    "Only admins can update reward status", {}))
          ELSE \E u \in current :
                 Step(r, [req[r] EXCEPT !.pc = "ur_update",
                                        !.currentId = u.id,
                                        !.currentRole = u.role])
       \/ Step(r, RewardReturn(req[r], FALSE,
                                "Only admins can update reward status", {}))

\* the row after .set({ status, reviewedBy, reviewNotes, updatedAt }): notes
\* that were not passed are not written
ReviewedRow(w, status, reviewedBy, reviewNotes) ==
    [w EXCEPT !.status = status, !.reviewedBy = reviewedBy,
              !.reviewNotes = IF reviewNotes = "" THEN @ ELSE reviewNotes]

\* db.update(rewardsTable).set(...).where(eq(id)).returning()
UrUpdate(r) ==
    /\ req[r].pc = "ur_update"
    /\ \/ LET target == { w \in rewards : w.id = req[r].targetId } IN
          IF target = {}
          THEN Step(r, RewardReturn(req[r], FALSE, "Reward not found", {}))
          ELSE \E w \in target :
                 LET row == ReviewedRow(w, req[r].status, req[r].currentId,
                                        req[r].reviewNotes) IN
                 /\ rewards' = (rewards \ {w}) \cup {row}
                 /\ req' = [req EXCEPT ![r] =
                       RewardReturn(req[r], TRUE, req[r].status, {row})]
                 /\ UNCHANGED <<users, purchases, notifications, posts, build>>
       \/ Step(r, RewardReturn(req[r], FALSE,
                                "Failed to update reward status", {}))

----------------------------------------------------------------------------
(* notification-actions: the two notifications sent to a referrer          *)

\* results.push({ channel, success, message })
Pushed(q, channel, success) ==
    [q EXCEPT !.channels = @ \cup {<<channel, success>>}]

\* the answer of sendNotificationAction: success when a channel succeeded
SnReturn(q) ==
    [q EXCEPT !.pc = "done",
              !.notifyResult = [returned |-> TRUE,
                                isSuccess |-> \E c \in q.channels : c[2]]]

\* the catch of sendNotificationAction
SnFail(q) ==
    [Threw(q, "sendNotification") EXCEPT
        !.pc = "done",
        !.notifyResult = [returned |-> TRUE, isSuccess |-> FALSE]]

\* after the SMS part: the in-app row is created for "in_app" and "all"
SnAfterSms(q) ==
    IF CreatesInApp(q.notificationType)
    THEN [q EXCEPT !.pc = "sn_inApp"]
    ELSE SnReturn(q)

\* after the email part: an SMS is sent for "sms" and "all"
SnAfterEmail(q) ==
    IF q.notificationType \in {"sms", "all"}
    THEN IF q.contact.phone
         THEN [q EXCEPT !.pc = "sn_sms"]
         ELSE SnAfterSms(Pushed(q, "sms", FALSE))
    ELSE SnAfterSms(q)

\* sendNotificationAction from its entry: an email is sent for "email" and
\* "all"
SnStart(q) ==
    IF q.notificationType \in {"email", "all"}
    THEN IF q.contact.email
         THEN [q EXCEPT !.pc = "sn_email"]
         ELSE SnAfterEmail(Pushed(q, "email", FALSE))
    ELSE SnAfterEmail(q)

\* the type chosen from the contact data, then sendNotificationAction
NotifyReferrerStart(kind, referrerId, hasEmail, hasPhone) ==
    SnStart([IdleReq EXCEPT !.kind = kind, !.referrerId = referrerId,
                            !.contact = [email |-> hasEmail, phone |-> hasPhone],
                            !.notificationType =
                                NotificationType(hasEmail, hasPhone)])

StartSendReferralUsed(r, referrerId, hasEmail, hasPhone) ==
    /\ req[r].pc = "idle"
    /\ Step(r, NotifyReferrerStart("referralUsed", referrerId, hasEmail, hasPhone))

StartSendRewardApproved(r, referrerId, hasEmail, hasPhone) ==
    /\ req[r].pc = "idle"
    /\ Step(r, NotifyReferrerStart("rewardApproved", referrerId, hasEmail, hasPhone))

\* sendEmailAction answers, or throws
SnEmail(r) ==
    /\ req[r].pc = "sn_email"
    /\ \/ \E ok \in BOOLEAN : Step(r, SnAfterEmail(Pushed(req[r], "email", ok)))
       \/ Step(r, SnFail(req[r]))

\* sendSmsAction answers, or throws
SnSms(r) ==
    /\ req[r].pc = "sn_sms"
    /\ \/ \E ok \in BOOLEAN : Step(r, SnAfterSms(Pushed(req[r], "sms", ok)))
       \/ Step(r, SnFail(req[r]))

\* createNotificationAction stores the in-app row, or answers failure
SnInApp(r) ==
    /\ req[r].pc = "sn_inApp"
    /\ \/ /\ notifications' = notifications \cup
                                 {NotificationRow(req[r].referrerId, 0)}
          /\ req' = [req EXCEPT ![r] = SnReturn(Pushed(req[r], "in_app", TRUE))]
          /\ UNCHANGED <<users, purchases, rewards, posts, build>>
       \/ Step(r, SnReturn(Pushed(req[r], "in_app", FALSE)))

----------------------------------------------------------------------------
(* referral-utils: generated codes and the checks of their format          *)

\* the alphabet of generateReferralCode
characters ==
    {"A", "B", "C", "D", "E", "F", "G", "H", "J", "K", "L", "M", "N", "P",
     "Q", "R", "S", "T", "U", "V", "W", "X", "Y", "Z",
     "2", "3", "4", "5", "6", "7", "8", "9"}

\* the characters the runs draw codes from
SampledCharacters == {"A", "L", "9"}

\* /^[A-HJKMNP-Z2-9]{8}$/.test(code)
isValidReferralCodeFormat(code) ==
    LET class == {"A", "B", "C", "D", "E", "F", "G", "H", "J", "K", "M", "N",
                  "P", "Q", "R", "S", "T", "U", "V", "W", "X", "Y", "Z",
                  "2", "3", "4", "5", "6", "7", "8", "9"}
    IN  /\ Len(code) = 8
        /\ \A i \in 1..Len(code) : code[i] \in class

\* /^[A-Z0-9]{4}-?[A-Z0-9]{4}$/.test(code) of the purchase form: the
\* pattern XXXX-XXXX, the hyphen optional
isValidReferralCode(code) ==
    LET class == {"A", "B", "C", "D", "E", "F", "G", "H", "I", "J", "K", "L",
                  "M", "N", "O", "P", "Q", "R", "S", "T", "U", "V", "W", "X",
                  "Y", "Z", "0", "1", "2", "3", "4", "5", "6", "7", "8", "9"}
    IN  \/ /\ Len(code) = 8
           /\ \A i \in 1..8 : code[i] \in class
        \/ /\ Len(code) = 9
           /\ code[5] = "-"
           /\ \A i \in (1..9) \ {5} : code[i] \in class

\* a code comes out of generateReferralCode and goes through the checks of
\* its format and through formatReferralCode
GenerateAndCheck(r, code) ==
    /\ req[r].pc = "idle"
    /\ Step(r, Done([IdleReq EXCEPT
                        !.kind = "generated",
                        !.referralCode = code,
                        !.codeChecks =
                            [format |-> isValidReferralCodeFormat(code),
                             action |-> ~MalformedCode(code),
                             displayed |-> formatReferralCode(code),
                             form |-> isValidReferralCode(
                                          formatReferralCode(code))]]))

\* the caller of validatePurchaseAction keeps the answer of its first call
FinishKeep(r) ==
    /\ req[r].pc = "done"
    /\ req[r].kind = "validate"
    /\ ~req[r].prev.set
    /\ Step(r, [IdleReq EXCEPT !.prev =
                  [set |-> TRUE, referralCode |-> req[r].referralCode,
                   ipAddress |-> req[r].ipAddress, amount |-> req[r].amount,
                   isSuccess |-> req[r].validateResult.isSuccess,
                   fraudScore |-> req[r].validateResult.fraudScore,
                   message |-> req[r].validateResult.message,
                   threw |-> req[r].threw,
                   users |-> users, purchases |-> purchases]])

\* ... and calls validatePurchaseAction again with the same arguments
StartValidateAgain(r) ==
    /\ req[r].pc = "idle"
    /\ req[r].prev.set
    /\ Step(r, CodeStart([IdleReq EXCEPT !.kind = "validate",
                            !.prev = req[r].prev,
                            !.referralCode = req[r].prev.referralCode,
                            !.ipAddress = req[r].prev.ipAddress,
                            !.amount = req[r].prev.amount]))

\* between the two calls another request stores a purchase from IpA (the
\* first one of the run)
OtherPurchase(r) ==
    /\ req[r].pc = "idle"
    /\ req[r].prev.set
    /\ \E h \in Histories : purchases = History(h[1], h[2])
    /\ purchases' = purchases \cup
          {[id |-> NewId(purchases), referrerId |-> "u2", customerId |-> "u4",
            ipAddress |-> IpA, recent |-> TRUE, status |-> "pending"]}
    /\ UNCHANGED <<users, rewards, notifications, req, posts, build>>

----------------------------------------------------------------------------
Init ==
    /\ users = InitialUsers
    /\ \E h \in Histories : purchases = History(h[1], h[2])
    /\ rewards = {}
    /\ notifications = {}
    /\ req = [r \in Clients |-> IdleReq]
    /\ posts = 0
    /\ build \in {"plain", "checked"}

\* the steps of the fraud module, whoever called it
FraudStep(r) ==
    \/ VrFindReferrer(r)
    \/ DfFindCustomer(r)
    \/ DfClerk(r)
    \/ DfCountIp(r)
    \/ DfCountRecent(r)

\* the steps validatePurchaseAction can take: its customerId is the made-up
\* one, no row has it, and clerk.users.getUser is never reached
ValidateStep(r) ==
    \/ VrFindReferrer(r)
    \/ DfFindCustomer(r)
    \/ DfCountIp(r)
    \/ DfCountRecent(r)

\* direct calls of the three exported validation actions
NextFraud ==
    \E r \in Reqs :
        \/ \E code \in DisplayedCodes : StartValidateCode(r, code)
        \/ \E amount \in Amounts, ip \in Ips, c \in CustomerIds, f \in ReferrerIds :
             StartDetect(r, amount, ip, c, f)
        \/ \E code \in Codes, ip \in Ips \cup {IpUnknown}, amount \in Amounts :
             StartValidatePurchase(r, code, ip, amount)
        \/ \E amount \in Amounts : CallMeetsMinimum(r, amount)
        \/ FraudStep(r)
        \/ Finish(r)

\* POST /api/purchases requests
NextRoute ==
    \E r \in Reqs :
        \/ \E ip \in HeaderIps, code \in Codes, amount \in BodyAmounts,
              hasName \in BOOLEAN, c \in BodyCustomerIds :
             StartPost(r, ip, code, amount, hasName, c)
        \/ RtFetchReferrer(r)
        \/ RtCreateCustomer(r)
        \/ ValidateStep(r)
        \/ CpFindReferrer(r)
        \/ CpFindCustomer(r)
        \/ CpInsert(r)
        \/ CpReward(r)
        \/ RtReward(r)
        \/ RtNotifyReferrer(r)
        \/ RtFetchAdmins(r)
        \/ RtNotifyAdmins(r)
        \/ Finish(r)

\* validatePurchaseAction called twice with the same arguments
NextRepeat ==
    \E r \in Reqs :
        \/ \E code \in Codes, ip \in Ips \cup {IpUnknown}, amount \in Amounts :
             StartValidatePurchase(r, code, ip, amount)
        \/ ValidateStep(r)
        \/ FinishKeep(r)
        \/ OtherPurchase(r)
        \/ StartValidateAgain(r)
        \/ Finish(r)

\* the inputs of the user operations
UserRoles == {"customer", "technician", "admin"}
UpdateSessions == {"none", "ck1", "ck2", "ckA"}
UpdateTargets == {"u1", "u3", "nobody"}
UpdateData ==
    { [role |-> ro, referralCode |-> c] :
        ro \in {"", "admin"}, c \in {Absent, CodeUnregistered, CodeU2} }

\* the operations that write the users table
NextUsers ==
    \E r \in Reqs :
        \/ \E role \in UserRoles, code \in {Absent, CodeG1}, g \in GeneratedCodes :
             StartCreateUser(r, role, code, g)
        \/ \E hasFields \in BOOLEAN, role \in UserRoles, g \in GeneratedCodes :
             StartPostUser(r, hasFields, role, g)
        \/ \E session \in UpdateSessions, role \in UserRoles :
             StartCreateInvited(r, session, role)
        \/ CiGetCurrent(r)
        \/ CiClerkList(r)
        \/ CiClerkCreate(r)
        \/ CuInsert(r)
        \/ \E session \in UpdateSessions, id \in UpdateTargets, data \in UpdateData :
             StartUpdateUser(r, session, id, data)
        \/ UuGetCurrent(r)
        \/ UuGetTarget(r)
        \/ UuUpdate(r)
        \/ Finish(r)

\* the users table alone: no purchase history, one build
InitUsers == Init /\ purchases = {} /\ build = "checked"

\* the data createPurchaseAction may be called with: "" and 0 are missing
\* fields, "nobody" is the id of no user
PurchaseUserIds == {"", "u1", "u3", "nobody"}
PurchaseAmounts == {0, 10000}

\* direct calls of createPurchaseAction
NextPurchase ==
    \E r \in Reqs :
        \/ \E f \in PurchaseUserIds, c \in PurchaseUserIds, amount \in PurchaseAmounts :
             StartCreatePurchase(r, f, c, amount)
        \/ CpFindReferrer(r)
        \/ CpFindCustomer(r)
        \/ CpInsert(r)
        \/ CpReward(r)
        \/ Finish(r)

SpecFraud == Init /\ [][NextFraud]_vars

SpecPurchase == Init /\ [][NextPurchase]_vars

SpecUsers == InitUsers /\ [][NextUsers]_vars

\* generateReferralCode returns any 8 characters of its alphabet
NextCodes ==
    \E r \in Reqs :
        \/ \E code \in [1..8 -> SampledCharacters \cap characters] :
             GenerateAndCheck(r, code)

SpecCodes == InitUsers /\ [][NextCodes]_vars

\* the notifications of a run
MaxNotifications == 3

\* the referrer u1 is notified, with and without an email address and a
\* phone number
NextNotify ==
    \E r \in Reqs :
        \/ \E hasEmail \in BOOLEAN, hasPhone \in BOOLEAN :
             /\ Cardinality(notifications) < MaxNotifications
             /\ StartSendReferralUsed(r, "u1", hasEmail, hasPhone)
        \/ \E hasEmail \in BOOLEAN, hasPhone \in BOOLEAN :
             /\ Cardinality(notifications) < MaxNotifications
             /\ StartSendRewardApproved(r, "u1", hasEmail, hasPhone)
        \/ SnEmail(r)
        \/ SnSms(r)
        \/ SnInApp(r)
        \/ Finish(r)

SpecNotify == InitUsers /\ [][NextNotify]_vars

\* rewards are created for the purchases that have none yet, listed and
\* reviewed, one call after the other
NextRewards ==
    \E r \in Reqs :
        \/ \E p \in { x \in purchases : \A w \in rewards : w.purchaseId # x.id } :
             StartCreateReward(r, p.id, p.referrerId)
        \/ CrInsert(r)
        \/ \E session \in {"none", "ck1", "ckA"} : StartGetPending(r, session)
        \/ GpGetCurrent(r)
        \/ GpQuery(r)
        \/ \E session \in {"none", "ck1", "ckA"}, id \in {1, 2},
              status \in {"approved", "rejected"}, notes \in {"", "verified"} :
             StartUpdateReward(r, session, id, status, notes)
        \/ UrGetCurrent(r)
        \/ UrUpdate(r)
        \/ Finish(r)

\* two purchases wait for their rewards
InitRewards ==
    /\ users = InitialUsers
    /\ purchases = History(2, 2)
    /\ rewards = {}
    /\ notifications = {}
    /\ req = [r \in Clients |-> IdleReq]
    /\ posts = 0
    /\ build = "checked"

SpecRewards == InitRewards /\ [][NextRewards]_vars

SpecRepeat == Init /\ [][NextRepeat]_vars

\* two POST /api/purchases requests from IpA for an existing customer, each
\* slot serving one request, their steps interleaved at every await
NextConcurrent ==
    \E r \in Clients :
        \/ \E amount \in {10000} :
             StartConcurrentPost(r, IpA, CodeU1, amount, "u2")
        \/ RtFetchReferrer(r)
        \/ ValidateStep(r)
        \/ CpFindReferrer(r)
        \/ CpFindCustomer(r)
        \/ CpInsert(r)
        \/ CpReward(r)
        \/ RtReward(r)
        \/ RtNotifyReferrer(r)
        \/ RtFetchAdmins(r)
        \/ RtNotifyAdmins(r)

SpecRoute == Init /\ [][NextRoute]_vars

SpecConcurrent == Init /\ [][NextConcurrent]_vars

\* a handler that can take a step eventually takes one
SpecRouteFair == SpecRoute /\ WF_vars(NextRoute)

----------------------------------------------------------------------------
(* What a call was asked and what its environment answered *)

\* the call of request r has returned to its outermost caller
Returned(r) == req[r].pc = "done"

\* the detectFraudAction call of request r returned a FraudScore
Scored(r) == req[r].fraudResult.returned /\ req[r].fraudResult.isSuccess

\* the customer row the store holds for the customerId of the call, if any
CustomerRows(r) == { u \in users : u.id = req[r].customerId }

\* the identity provider was asked about the customer and answered
ClerkAnswered(r) ==
    /\ "clerkGetUser" \in req[r].queries
    /\ "clerkGetUser" \notin req[r].threw

\* the identity provider's record of the customer has no verified primary
\* email address
NoVerifiedPrimaryEmailOf(id) ==
    \E u \in users :
        /\ u.id = id
        /\ u.clerkUserId \in DOMAIN ClerkDirectory
        /\ LET c == ClerkDirectory[u.clerkUserId] IN
           ~ \E e \in c.emailAddresses :
                e.id = c.primaryEmailAddressId /\ e.status = "verified"

NoVerifiedPrimaryEmail(r) == NoVerifiedPrimaryEmailOf(req[r].customerId)

IpCount(r) == Cardinality({ p \in purchases : p.ipAddress = req[r].ipAddress })
IpCount24h(r) ==
    Cardinality({ p \in purchases : p.ipAddress = req[r].ipAddress /\ p.recent })

\* the six signals of the scoring table, as the inputs of the call decide them
SigBelowMinimum(r) == req[r].amount < 5000
SigUnverified(r) == ClerkAnswered(r) /\ NoVerifiedPrimaryEmail(r)
SigSelfReferral(r) == req[r].customerId = req[r].referrerId
SigExcessIp(r) == req[r].ipAddress # "" /\ IpCount(r) >= 5
SigExcessIp24h(r) == req[r].ipAddress # "" /\ IpCount24h(r) >= 10
SigMissingIp(r) == req[r].ipAddress = ""

\* the identity evaluator could not do its lookup
SigDegraded(r) ==
    "findCustomer" \in req[r].threw \/ "clerkGetUser" \in req[r].threw

----------------------------------------------------------------------------
(* C1 .. C10 *)

\* C1: every FraudScore has isLikelyFraud true exactly when score >= 70, and
\* validatePurchaseAction returns success exactly when the referral code
\* resolved and the score that was computed is below 70
C1_ThresholdClosedOnReject ==
    \A r \in Reqs :
        /\ Scored(r) =>
             (req[r].fraudResult.isLikelyFraud <=> req[r].fraudResult.score >= 70)
        /\ req[r].validateResult.returned =>
             (req[r].validateResult.isSuccess <=>
                /\ req[r].codeResult.isSuccess /\ req[r].codeResult.isValid
                /\ Scored(r)
                /\ req[r].fraudResult.score < 70)

\* a call that scored exactly 70 and was flagged
C1_Witness ==
    \E r \in Reqs :
        /\ Scored(r)
        /\ req[r].fraudResult.score = 70
        /\ req[r].fraudResult.isLikelyFraud

\* C2: the score is the plain sum of the weights 30, 40, 100, 50, 70, 20 of
\* the signals that triggered; the others add nothing
C2_ScoreIsSumOfWeights ==
    \A r \in Reqs :
        Scored(r) =>
            req[r].fraudResult.score =
                  (IF SigBelowMinimum(r) THEN 30 ELSE 0)
                + (IF SigUnverified(r) THEN 40 ELSE 0)
                + (IF SigSelfReferral(r) THEN 100 ELSE 0)
                + (IF SigExcessIp(r) THEN 50 ELSE 0)
                + (IF SigExcessIp24h(r) THEN 70 ELSE 0)
                + (IF SigMissingIp(r) THEN 20 ELSE 0)

\* five signals at once: 30 + 40 + 100 + 50 + 70, far above any cap
C2_Witness ==
    \E r \in Reqs : Scored(r) /\ req[r].fraudResult.score = 290

\* C3: a malformed or unknown code ends validatePurchaseAction at once with
\* "Invalid referral code": detectFraudAction is not entered, no customer or
\* IP query is made, no score exists
C3_InvalidCodeFailsFast ==
    \A r \in Reqs :
        ( /\ req[r].kind \in {"validate", "post"}
          /\ req[r].codeResult.returned
          /\ req[r].codeResult.isSuccess
          /\ ~req[r].codeResult.isValid )
        => /\ req[r].validateResult.returned
           /\ ~req[r].validateResult.isSuccess
           /\ req[r].validateResult.message = "Invalid referral code"
           /\ ~req[r].detectInvoked
           /\ req[r].queries \subseteq {"findReferrerByCode"}
           /\ ~req[r].fraudResult.returned

\* a well-formed, unregistered code went through validatePurchaseAction
C3_Witness ==
    \E r \in Reqs :
        /\ req[r].kind = "validate"
        /\ req[r].referralCode = CodeUnregistered
        /\ req[r].codeResult.message = "Referral code not found"
        /\ Returned(r)

\* the request of slot r is a POST /api/purchases whose validation accepted
Accepted(r) ==
    /\ req[r].kind = "post"
    /\ req[r].validateResult.returned
    /\ req[r].validateResult.isSuccess

\* C4: in POST /api/purchases a purchase, a reward or a notification is
\* written only by a step of a request whose validatePurchaseAction call
\* has returned success; a request whose validation was rejected or failed
\* has ended, with a non-success response, in the step that learnt it
C4_WritesOnlyAfterAcceptedValidation ==
    [][ /\ ( \/ purchases' # purchases
             \/ rewards' # rewards
             \/ notifications' # notifications )
           => \E r \in Reqs : Accepted(r) /\ req'[r] # req[r]
        /\ \A r \in Reqs :
             ( /\ req'[r].kind = "post"
               /\ req'[r].validateResult.returned
               /\ ~req'[r].validateResult.isSuccess )
             => /\ req'[r].pc = "done"
                /\ ~req'[r].response.success ]_vars

\* an accepted request has stored its purchase and its reward
C4_Witness ==
    \E r \in Reqs :
        /\ Accepted(r)
        /\ req[r].purchaseResult.isSuccess
        /\ \E p \in purchases : p.id = req[r].purchaseResult.id
        /\ \E w \in rewards : w.purchaseId = req[r].purchaseResult.id
        /\ notifications # {}

\* C5 (as claimed): a purchase attempt whose customer is the referrer is
\* never accepted: detectFraudAction flags it with a score of at least 100
\* and "Self-referral detected", and the validation that POST
\* /api/purchases runs rejects it
C5_SelfReferralAlwaysRejected ==
    \A r \in Reqs :
        /\ ( req[r].kind = "detect" /\ Scored(r)
             /\ req[r].customerId = req[r].referrerId )
           => /\ req[r].fraudResult.isLikelyFraud
              /\ req[r].fraudResult.score >= 100
              /\ \E i \in DOMAIN req[r].fraudResult.flags :
                    req[r].fraudResult.flags[i] = <<"Self-referral detected">>
        /\ ( req[r].kind = "post" /\ req[r].validateResult.returned
             /\ req[r].routeCustomerId = req[r].routeReferrer )
           => ~req[r].validateResult.isSuccess

\* the store reads of a validation call
StoreReads == {"findReferrerByCode", "findCustomer", "countIp", "countRecent"}

\* the result the outermost caller of request r got is a success
OuterSuccess(r) ==
    CASE req[r].kind = "code"   -> req[r].codeResult.isSuccess
      [] req[r].kind = "detect" -> req[r].fraudResult.isSuccess
      [] OTHER                  -> req[r].validateResult.isSuccess

\* C6 (as claimed): any store read that fails during a validation call ends
\* the call with a non-accepted result
C6_AnyStoreFailureAborts ==
    \A r \in Reqs :
        ( req[r].kind \in {"code", "detect", "validate"}
          /\ req[r].threw \cap StoreReads # {} )
        => Returned(r) /\ ~OuterSuccess(r)

\* C6 (amended): a failed referrer lookup, all-time IP count or 24-hour IP
\* count ends the call with a non-accepted result: the IP counts hand the
\* store's error message to the caller, the referrer lookup is reported as
\* "Failed to validate referral code" and, by validatePurchaseAction, as
\* "Invalid referral code".  A failed customer lookup is absorbed like a
\* failed identity-provider lookup: the flag "Unable to verify email status"
\* is added and the validation goes on
C6_StoreFailureAbortsExceptCustomerLookup ==
    \A r \in Reqs :
        req[r].kind \in {"code", "detect", "validate"} =>
          /\ req[r].threw \cap {"countIp", "countRecent"} # {}
               => /\ Returned(r) /\ ~OuterSuccess(r)
                  /\ req[r].fraudResult.message = "database error"
                  /\ req[r].kind = "validate"
                       => req[r].validateResult.message = "database error"
          /\ "findReferrerByCode" \in req[r].threw
               => /\ Returned(r) /\ ~OuterSuccess(r)
                  /\ req[r].codeResult.message = "Failed to validate referral code"
                  /\ req[r].kind = "validate"
                       => req[r].validateResult.message = "Invalid referral code"
          /\ ( req[r].threw # {}
               /\ req[r].threw \subseteq {"findCustomer", "clerkGetUser"} )
               => /\ \E i \in DOMAIN req[r].flags :
                        req[r].flags[i] = <<"Unable to verify email status">>
                  /\ req[r].pc \in {"df_countIp", "df_countRecent", "done"}
                  /\ Returned(r) =>
                        /\ Scored(r)
                        /\ req[r].kind = "validate" =>
                              ( req[r].validateResult.isSuccess
                                  <=> req[r].fraudResult.score < 70 )

\* the customer lookup failed and the call went on; the 24-hour count failed
\* and the call ended with the store's error
C6_Witness ==
    \E r \in Reqs :
        /\ req[r].kind = "validate"
        /\ req[r].threw = {"findCustomer", "countRecent"}
        /\ Returned(r)
        /\ ~req[r].validateResult.isSuccess
        /\ req[r].validateResult.message = "database error"

\* C7: a failed identity-provider lookup does not end detectFraudAction: the
\* explanation "Unable to verify email status" is added, the self-referral
\* and IP checks run, and the call returns a FraudScore carrying that flag
\* (a later failure of an IP count still ends the call, with a failure
\* result and not an exception)
C7_IdentityLookupFailureAbsorbed ==
    \A r \in Reqs :
        "clerkGetUser" \in req[r].threw =>
          /\ req[r].pc \in {"df_countIp", "df_countRecent", "done"}
          /\ req[r].fraudResult.returned =>
               IF req[r].threw \cap {"countIp", "countRecent"} = {}
               THEN /\ req[r].fraudResult.isSuccess
                    /\ \E i \in DOMAIN req[r].fraudResult.flags :
                          req[r].fraudResult.flags[i] =
                              <<"Unable to verify email status">>
                    /\ SigSelfReferral(r) =>
                          \E i \in DOMAIN req[r].fraudResult.flags :
                             req[r].fraudResult.flags[i] = <<"Self-referral detected">>
                    /\ {"countIp", "countRecent"} \subseteq req[r].queries
                          \/ SigMissingIp(r)
               ELSE ~req[r].fraudResult.isSuccess

\* getUser failed for a self-referring customer from a busy address: both
\* later checks left their flags next to the degraded one
C7_Witness ==
    \E r \in Reqs :
        /\ "clerkGetUser" \in req[r].threw
        /\ Scored(r)
        /\ req[r].fraudResult.flags =
              << <<"Unable to verify email status">>,
                 <<"Self-referral detected">>,
                 <<"Excessive purchases from IP address", 5>> >>

Opt(cond, flag) == IF cond THEN <<flag>> ELSE <<>>

\* the explanations of the triggered signals in evaluator order
ExpectedFlags(r) ==
       Opt(SigBelowMinimum(r), <<"Purchase amount below minimum threshold">>)
    \o Opt(SigUnverified(r), <<"Email not verified">>)
    \o Opt(SigDegraded(r), <<"Unable to verify email status">>)
    \o Opt(SigSelfReferral(r), <<"Self-referral detected">>)
    \o Opt(SigExcessIp(r), <<"Excessive purchases from IP address", IpCount(r)>>)
    \o Opt(SigExcessIp24h(r), <<"Too many purchases from IP in 24 hours", IpCount24h(r)>>)
    \o Opt(SigMissingIp(r), <<"Missing IP address">>)

\* C8: the flags of a FraudScore are one explanation per triggered signal in
\* the order amount, identity, self-referral, IP, IP in 24 hours, missing
\* IP, and the fraud rejection of validatePurchaseAction carries these flags
C8_FlagsInEvaluatorOrder ==
    \A r \in Reqs :
        /\ Scored(r) => req[r].fraudResult.flags = ExpectedFlags(r)
        /\ ( req[r].validateResult.returned
             /\ Scored(r) /\ req[r].fraudResult.isLikelyFraud )
           => /\ req[r].validateResult.message =
                    "Purchase flagged as potentially fraudulent"
              /\ req[r].validateResult.messageFlags = ExpectedFlags(r)

\* five signals triggered in one call
C8_Witness ==
    \E r \in Reqs :
        /\ Scored(r)
        /\ req[r].fraudResult.flags =
              << <<"Purchase amount below minimum threshold">>,
                 <<"Email not verified">>,
                 <<"Self-referral detected">>,
                 <<"Excessive purchases from IP address", 10>>,
                 <<"Too many purchases from IP in 24 hours", 10>> >>

FraudPcs ==
    {"vr_findReferrer", "df_findCustomer", "df_clerk", "df_countIp",
     "df_countRecent"}

\* C9: no step of validateReferralCodeAction, detectFraudAction or
\* validatePurchaseAction, from the call to the return, changes users,
\* purchases, rewards or notifications
C9_ValidationOnlyReads ==
    [][ \A r \in Reqs :
          ( /\ req'[r] # req[r]
            /\ \/ req[r].pc \in FraudPcs
               \/ req[r].pc = "idle" /\ req'[r].kind \in {"code", "detect", "validate"} )
          => /\ users' = users
             /\ purchases' = purchases
             /\ rewards' = rewards
             /\ notifications' = notifications ]_vars

\* a validatePurchaseAction call that made every read and rejected for fraud
C9_Witness ==
    \E r \in Reqs :
        /\ req[r].kind = "validate"
        /\ Returned(r)
        /\ req[r].queries = {"findReferrerByCode", "findCustomer", "countIp", "countRecent"}
        /\ req[r].validateResult.message = "Purchase flagged as potentially fraudulent"

\* C10 (as claimed): with every lookup answered, a customer without a
\* verified primary email gets the flag "Email not verified" and 40 points,
\* a verified one does not, so that an unverified customer buying for less
\* than $50 is rejected; for detectFraudAction and for the validation that
\* POST /api/purchases runs for its customer
C10_UnverifiedCustomerScores40 ==
    \A r \in Reqs :
        LET customer == IF req[r].kind = "post" THEN req[r].routeCustomerId
                                                 ELSE req[r].customerId
            flagged == \E i \in DOMAIN req[r].fraudResult.flags :
                          req[r].fraudResult.flags[i] = <<"Email not verified">>
        IN  ( /\ req[r].kind \in {"detect", "post"}
              /\ Scored(r)
              /\ req[r].threw = {}
              /\ \E u \in users : u.id = customer
                                  /\ u.clerkUserId \in DOMAIN ClerkDirectory )
            => /\ flagged <=> NoVerifiedPrimaryEmailOf(customer)
               /\ ( NoVerifiedPrimaryEmailOf(customer) /\ req[r].amount < 5000 )
                  => /\ req[r].fraudResult.score >= 70
                     /\ req[r].validateResult.returned
                          => ~req[r].validateResult.isSuccess

----------------------------------------------------------------------------
(* C11 .. C20 *)

HasFlag(flags, flag) == \E i \in DOMAIN flags : flags[i] = flag

IpCountQueries == {"countIp", "countRecent"}

\* C11 (as claimed): a purchase attempt whose origin IP is absent or unknown
\* (a POST /api/purchases without x-forwarded-for) makes no IP-count query
\* and its FraudScore carries "Missing IP address" and the weight 20; an
\* attempt with a known origin IP never carries that flag
C11_MissingOriginScores20 ==
    \A r \in Reqs :
        /\ req[r].ipAddress \in {"", "unknown"} /\ req[r].detectInvoked
             => /\ req[r].queries \cap IpCountQueries = {}
                /\ Scored(r) =>
                     /\ HasFlag(req[r].fraudResult.flags, <<"Missing IP address">>)
                     /\ req[r].fraudResult.score >= 20
        /\ ( req[r].ipAddress \notin {"", "unknown"} /\ Scored(r) )
             => ~HasFlag(req[r].fraudResult.flags, <<"Missing IP address">>)

\* the weight the scoring table gives to the signal a flag explains
WeightOfFlag(flag) ==
    CASE flag[1] = "Purchase amount below minimum threshold" -> 30
      [] flag[1] = "Email not verified" -> 40
      [] flag[1] = "Self-referral detected" -> 100
      [] flag[1] = "Excessive purchases from IP address" -> 50
      [] flag[1] = "Too many purchases from IP in 24 hours" -> 70
      [] flag[1] = "Missing IP address" -> 20
      [] OTHER -> 0

RECURSIVE WeightOfFlags(_)
WeightOfFlags(flags) ==
    IF flags = <<>> THEN 0
    ELSE WeightOfFlag(Head(flags)) + WeightOfFlags(Tail(flags))

\* C12: for a known origin IP the flag "Excessive purchases from IP address"
\* (50 points) is raised exactly when the purchases stored with that IP
\* number 5 or more, and the flag "Too many purchases from IP in 24 hours"
\* (70 points) exactly when those of the last 24 hours number 10 or more;
\* each flag names the count it saw and the score holds each flag's weight
C12_IpThresholdsInclusive ==
    \A r \in Reqs :
        ( Scored(r) /\ req[r].ipAddress # "" ) =>
          LET flags == req[r].fraudResult.flags IN
          /\ HasFlag(flags, <<"Excessive purchases from IP address", IpCount(r)>>)
               <=> IpCount(r) >= 5
          /\ HasFlag(flags, <<"Too many purchases from IP in 24 hours", IpCount24h(r)>>)
               <=> IpCount24h(r) >= 10
          /\ \A i \in DOMAIN flags :
               /\ flags[i][1] = "Excessive purchases from IP address"
                    => flags[i][2] = IpCount(r)
               /\ flags[i][1] = "Too many purchases from IP in 24 hours"
                    => flags[i][2] = IpCount24h(r)
          /\ req[r].fraudResult.score = WeightOfFlags(flags)

\* exactly 10 purchases from the IP in the last 24 hours: both IP signals
\* triggered and nothing else did
C12_Witness ==
    \E r \in Reqs :
        /\ Scored(r)
        /\ IpCount24h(r) = 10
        /\ req[r].fraudResult.score = 120
        /\ req[r].fraudResult.flags =
              << <<"Excessive purchases from IP address", 10>>,
                 <<"Too many purchases from IP in 24 hours", 10>> >>

\* C13: an amount below 50.00 raises "Purchase amount below minimum
\* threshold" with 30 points whatever the customer, the referrer, the IP and
\* the answers of the store and of the identity provider are; 50.00 and more
\* never raises it; meetsMinimumPurchaseAmount answers true exactly for the
\* amounts that do not raise it
C13_BelowMinimumIffUnder50 ==
    \A r \in Reqs :
        /\ req[r].detectInvoked
             => ( HasFlag(req[r].flags, <<"Purchase amount below minimum threshold">>)
                    <=> req[r].amount < 5000 )
        /\ Scored(r)
             => /\ HasFlag(req[r].fraudResult.flags,
                           <<"Purchase amount below minimum threshold">>)
                     <=> req[r].amount < 5000
                /\ req[r].fraudResult.score = WeightOfFlags(req[r].fraudResult.flags)
                /\ req[r].amount < 5000 => req[r].fraudResult.score >= 30
        /\ ( req[r].kind = "meets" /\ Returned(r) )
             => ( req[r].meetsResult <=> ~(req[r].amount < 5000) )

\* 49.99 from an unremarkable customer: the one signal, 30 points
C13_Witness ==
    \E r \in Reqs :
        /\ Scored(r)
        /\ req[r].amount = 4999
        /\ req[r].fraudResult.score = 30
        /\ req[r].fraudResult.flags = << <<"Purchase amount below minimum threshold">> >>

\* a code without its display hyphens
StripHyphens(code) == SelectSeq(code, LAMBDA c : c # "-")

\* the referrers holding a code
HoldersOf(code) == { u \in users : u.referralCode = code }

\* what validateReferralCodeAction answers once the format is accepted
LookedUp(r) ==
    /\ "findReferrerByCode" \in req[r].queries
    /\ "findReferrerByCode" \notin req[r].threw
         => /\ req[r].codeResult.isSuccess
            /\ IF HoldersOf(req[r].referralCode) = {}
               THEN /\ ~req[r].codeResult.isValid
                    /\ req[r].codeResult.message = "Referral code not found"
               ELSE /\ req[r].codeResult.isValid
                    /\ \E u \in HoldersOf(req[r].referralCode) :
                          req[r].codeResult.referrerId = u.id

RejectedAsMalformed(r) ==
    /\ req[r].codeResult.isSuccess
    /\ ~req[r].codeResult.isValid
    /\ req[r].codeResult.message = "Invalid referral code format"
    /\ req[r].queries = {}

SecondCallOnSameStore(r) ==
    /\ req[r].kind = "validate"
    /\ req[r].prev.set
    /\ req[r].validateResult.returned
    /\ req[r].referralCode = req[r].prev.referralCode
    /\ req[r].ipAddress = req[r].prev.ipAddress
    /\ req[r].amount = req[r].prev.amount
    /\ users = req[r].prev.users
    /\ purchases = req[r].prev.purchases

SameDecision(r) ==
    /\ req[r].validateResult.isSuccess = req[r].prev.isSuccess
    /\ req[r].validateResult.fraudScore = req[r].prev.fraudScore

AbortingReads == {"findReferrerByCode", "countIp", "countRecent"}

ReferralCodesUnique ==
    \A u, v \in users :
        ( u.referralCode # <<"null">> /\ u.referralCode = v.referralCode )
        => u.id = v.id

\* a step leaves every assigned referral code as it is
ReferralCodesKept ==
    \A u \in users :
        u.referralCode # <<"null">>
        => \A v \in users' : v.id = u.id => v.referralCode = u.referralCode

\* C16 (as claimed): no two users ever hold the same referral code, and no
\* step of createUserAction, createInvitedUserAction, updateUserAction or
\* POST /api/users changes a referral code that has been assigned
C16_ReferralCodeUniqueAndImmutable ==
    [] ReferralCodesUnique /\ [][ReferralCodesKept]_vars

\* request r is a direct createPurchaseAction call
PurchaseCall(r) == req[r].kind = "purchase"

MissingPurchaseField(r) ==
    req[r].routeReferrer = "" \/ req[r].routeCustomerId = "" \/ req[r].amount = 0

UserLookups == {"cpFindReferrer", "cpFindCustomer"}

\* C17 (as claimed): createPurchaseAction with referrerId equal to
\* customerId makes no user lookup, no purchase insert and no reward, and
\* returns the failure "Self-referrals are not allowed"
C17_SelfReferralRejectedFirst ==
    \A r \in Reqs :
        ( /\ PurchaseCall(r)
          /\ ~MissingPurchaseField(r)
          /\ req[r].routeReferrer = req[r].routeCustomerId )
        => /\ req[r].queries = {}
           /\ ~req[r].rewardAttempted
           /\ req[r].purchaseResult.returned
                => /\ ~req[r].purchaseResult.isSuccess
                   /\ req[r].purchaseResult.message = "Self-referrals are not allowed"

\* referrer or customer of the call is missing from the users table
UnknownParty(r) ==
    \/ \A u \in users : u.id # req[r].routeReferrer
    \/ \A u \in users : u.id # req[r].routeCustomerId

\* C18: a createPurchaseAction call with a missing referrerId, customerId or
\* amount, or with a referrer or customer that no user row has, stores no
\* purchase and no reward in any of its steps and returns a failure; with a
\* missing field it returns "Missing required purchase information" and has
\* not touched the store at all
C18_InvalidPurchaseDataRejected ==
    [][ \A r \in Reqs :
          ( /\ req'[r].kind = "purchase"
            /\ req'[r] # req[r]
            /\ MissingPurchaseField(r)' \/ UnknownParty(r)' )
          => /\ purchases' = purchases
             /\ rewards' = rewards
             /\ ~req'[r].rewardAttempted
             /\ req'[r].purchaseResult.returned
                  => ~req'[r].purchaseResult.isSuccess
             /\ MissingPurchaseField(r)'
                  => /\ req'[r].purchaseResult.returned
                     /\ req'[r].purchaseResult.message =
                           "Missing required purchase information"
                     /\ req'[r].queries = {} ]_vars

\* a call for a customer that does not exist was turned away
C18_Witness ==
    \E r \in Reqs :
        /\ PurchaseCall(r)
        /\ req[r].routeReferrer = "u1"
        /\ req[r].routeCustomerId = "nobody"
        /\ req[r].purchaseResult.returned
        /\ ~req[r].purchaseResult.isSuccess
        /\ \A p \in purchases : p.customerId # "nobody"

InsertAttempted(r) == "cpInsert" \in req[r].queries
InsertSucceeded(r) == InsertAttempted(r) /\ "cpInsert" \notin req[r].threw

\* C19: in createPurchaseAction (the definition that creates the reward
\* itself) the reward is attempted exactly when the purchase row was
\* inserted; a rejected insert returns the failure with the error's message
\* and leaves no reward; once the row is inserted the call returns success
\* with that row whether the reward was created or not
C19_OutcomeFollowsInsert ==
    \A r \in Reqs :
        ( PurchaseCall(r) /\ build = "checked" ) =>
          /\ req[r].rewardAttempted => InsertSucceeded(r)
          /\ req[r].autoRewardCreated => req[r].rewardAttempted
          /\ req[r].purchaseResult.returned =>
               /\ InsertSucceeded(r) <=> req[r].rewardAttempted
               /\ InsertAttempted(r) =>
                    ( req[r].purchaseResult.isSuccess <=> InsertSucceeded(r) )
               /\ ( InsertAttempted(r) /\ ~InsertSucceeded(r) )
                    => /\ req[r].purchaseResult.message = "database error"
                       /\ ~req[r].rewardAttempted
                       /\ ~req[r].autoRewardCreated
               /\ InsertSucceeded(r)
                    => /\ req[r].purchaseResult.message = "Purchase created successfully"
                       /\ \E p \in purchases :
                             /\ p.id = req[r].purchaseResult.id
                             /\ p.referrerId = req[r].routeReferrer
                             /\ p.customerId = req[r].routeCustomerId

\* the purchase was stored, the reward could not be created, the call
\* returned success
C19_Witness ==
    \E r \in Reqs :
        /\ PurchaseCall(r)
        /\ build = "checked"
        /\ req[r].purchaseResult.returned
        /\ req[r].purchaseResult.isSuccess
        /\ req[r].rewardAttempted
        /\ ~req[r].autoRewardCreated
        /\ rewards = {}
        /\ \E p \in purchases : p.id = req[r].purchaseResult.id

\* the purchase of the end-to-end test has been received: the registered
\* code of u1, a customer name and no customerId, $100, from an origin
\* without purchases
ReferredPurchaseReceived(r) ==
    /\ req[r].kind = "post"
    /\ req[r].pc = "rt_fetchReferrer"
    /\ req[r].referralCode = CodeU1
    /\ req[r].amount = 10000
    /\ req[r].bodyCustomerId = ""
    /\ req[r].ipAddress = IpA
    /\ IpCount(r) = 0

\* the request was answered with success and its pending purchase and
\* pending reward are stored
ReferredPurchaseCompleted(r) ==
    /\ req[r].kind = "post"
    /\ req[r].pc = "done"
    /\ req[r].response.success
    /\ \E p \in purchases :
          /\ p.referrerId = "u1"
          /\ p.customerId = req[r].routeCustomerId
          /\ p.customerId # "u1"
          /\ p.status = "pending"
          /\ \E w \in rewards :
                /\ w.purchaseId = p.id
                /\ w.referrerId = "u1"
                /\ w.status = "pending"

\* a fetch, a store call or an insert of the request was rejected
InfrastructureFailed(r) == req[r].kind = "post" /\ req[r].threw # {}

\* C20 (as claimed, and only for requests all of whose fetches and store
\* calls are answered): a POST /api/purchases with a registered referral
\* code, a customer name and amount 100, from an origin without purchases
\* and for a customer other than the referrer, is eventually answered with
\* success, and then a pending purchase for that referrer and customer and a
\* pending reward for the referrer are stored
C20_ReferredPurchaseCompletes ==
    \A r \in Reqs :
        ReferredPurchaseReceived(r)
            ~> ( ReferredPurchaseCompleted(r) \/ InfrastructureFailed(r) )

----------------------------------------------------------------------------
(* C21 .. C29 *)

\* request r is a createUserAction call, made directly or by POST /api/users
\* or createInvitedUserAction, that has passed its first statement
CreateUserCall(r) ==
    /\ req[r].kind \in {"createUser", "postUser", "createInvited"}
    /\ req[r].pc = "cu_insert" \/ req[r].userResult.message \in
                                     {"User created successfully", "database error"}

\* C21: createUserAction calls generateReferralCode exactly when the role is
\* customer and the data carries no code, and then inserts the generated
\* code; in every other case the row is inserted with the code it came with
\* (none for a technician or admin without one); a rejected insert is
\* returned as a failure carrying the error's message
C21_CodeGeneratedForCustomersOnly ==
    \A r \in Reqs :
        CreateUserCall(r) =>
          /\ req[r].codeGenerated
               <=> ( req[r].data.role = "customer" /\ req[r].givenCode = <<"absent">> )
          /\ req[r].codeGenerated => req[r].data.referralCode \in GeneratedCodes
          /\ ~req[r].codeGenerated => req[r].data.referralCode = req[r].givenCode
          /\ ( req[r].userResult.returned /\ req[r].userResult.isSuccess )
               => \E u \in users :
                     /\ u.id = req[r].userResult.id
                     /\ u.role = req[r].data.role
                     /\ u.referralCode =
                          IF req[r].data.referralCode = <<"absent">>
                          THEN <<"null">> ELSE req[r].data.referralCode
          /\ ( req[r].userResult.returned /\ ~req[r].userResult.isSuccess )
               => /\ req[r].userResult.message = "database error"
                  /\ req[r].userResult.id = ""

\* a technician was stored without a code by a direct call
C21_Witness ==
    \E r \in Reqs :
        /\ req[r].kind = "createUser"
        /\ req[r].data.role = "technician"
        /\ ~req[r].codeGenerated
        /\ req[r].userResult.isSuccess
        /\ \E u \in users : /\ u.id = req[r].userResult.id
                            /\ u.role = "technician"
                            /\ u.referralCode = <<"null">>

RewardsOf(purchaseId) == { w \in rewards : w.purchaseId = purchaseId }

\* C22 (as claimed): no purchase ever has two reward rows, and a POST
\* /api/purchases that was answered with success and reports a reward has
\* left exactly one reward row for its purchase
C22_OneRewardPerPurchase ==
    /\ \A p \in purchases : Cardinality(RewardsOf(p.id)) <= 1
    /\ \A r \in Reqs :
         ( /\ req[r].kind = "post"
           /\ Returned(r)
           /\ req[r].response.success
           /\ req[r].rewardCreated )
         => Cardinality(RewardsOf(req[r].purchaseResult.id)) = 1

\* the customer row that request r had POST /api/users create
CustomerAddedBy(r) ==
    { u \in users : req[r].bodyCustomerId = "" /\ u.id = req[r].routeCustomerId }

\* the purchase row that the createPurchaseAction call of request r inserted
PurchaseAddedBy(r) ==
    { p \in purchases : InsertSucceeded(r) /\ p.id = req[r].purchaseResult.id }

\* C23 (as claimed): a POST /api/purchases that was answered without success
\* has added no user, no purchase, no reward and no notification
C23_FailedRequestLeavesStore ==
    \A r \in Reqs :
        ( req[r].kind = "post" /\ Returned(r) /\ ~req[r].response.success )
        => /\ CustomerAddedBy(r) = {}
           /\ PurchaseAddedBy(r) = {}
           /\ ~req[r].rewardCreated
           /\ ~req[r].autoRewardCreated
           /\ notifications = {}

\* the purchases of the last 24 hours stored for an origin
RecentFrom(ip, table) == { p \in table : p.ipAddress = ip /\ p.recent }

\* C24 (as claimed): however concurrent POST /api/purchases requests from
\* one origin interleave, the purchases of the last 24 hours stored for that
\* origin never number more than 10, and a purchase is inserted only when
\* fewer than 10 are stored at that moment
C24_DailyLimitHoldsUnderConcurrency ==
    /\ [] ( Cardinality(RecentFrom(IpA, purchases)) <= 10 )
    /\ [][ \A p \in purchases' \ purchases :
             Cardinality(RecentFrom(p.ipAddress, purchases)) < 10 ]_vars

\* the rows a step gives a privileged role: a new admin or technician, or a
\* stored user whose role is another one afterwards
PrivilegedOrPromoted(before, after) ==
    { u \in after :
        \/ /\ u.role \in {"admin", "technician"}
           /\ \A v \in before : v.id # u.id
        \/ \E v \in before : v.id = u.id /\ v.role # u.role }

\* the call in flight was let through as an authenticated admin
ByAuthenticatedAdmin(r) ==
    /\ req[r].kind \in {"createInvited", "updateUser"}
    /\ req[r].currentRole = "admin"

\* C25 (as claimed): an admin or technician row is created, and a user's
\* role is changed, only by a call whose caller is authenticated and has the
\* database role admin; POST /api/users, createUserAction and
\* updateUserAction do neither for an unauthenticated or non-admin caller
C25_PrivilegedRolesOnlyByAdmin ==
    [][ PrivilegedOrPromoted(users, users') # {}
          => \E r \in Reqs : ByAuthenticatedAdmin(r) ]_vars

\* a finished updateRewardStatusAction call
ReviewCall(r) == req[r].kind = "updateReward" /\ Returned(r)

\* the rows of the users table the caller's session belongs to
CallerRows(r) == { u \in users : u.clerkUserId = req[r].session }

\* the caller is signed in and their row in the users table is an admin's
CallerIsAdmin(r) ==
    /\ req[r].session # "none"
    /\ CallerRows(r) # {}
    /\ \A u \in CallerRows(r) : u.role = "admin"

\* C26: updateRewardStatusAction changes a reward only for an authenticated
\* caller whose database role is admin; for any other caller it answers
\* failure and the row stays as it was; on success the row has the requested
\* status and the id of the calling admin as reviewedBy, and
\* getPendingRewardsAction lists the rewards with status pending, so not this
\* one
C26_ReviewOnlyByAdmin ==
    /\ [][ \A w \in rewards : w \notin rewards' =>
              \E r \in Reqs : /\ req[r].kind = "updateReward"
                              /\ CallerIsAdmin(r) ]_vars
    /\ [] ( \A r \in Reqs : ( ReviewCall(r) /\ ~CallerIsAdmin(r) )
                => ~req[r].rewardResult.isSuccess )
    /\ [] ( \A r \in Reqs : ( ReviewCall(r) /\ req[r].rewardResult.isSuccess )
                => \E w \in rewards :
                     /\ w.id = req[r].targetId
                     /\ w.status = req[r].status
                     /\ w.status \in {"approved", "rejected"}
                     /\ \E u \in CallerRows(r) : w.reviewedBy = u.id
                     /\ req[r].rewardResult.data = {w} )
    /\ [] ( \A r \in Reqs :
              ( req[r].kind = "getPending" /\ Returned(r)
                /\ req[r].rewardResult.isSuccess )
                => /\ req[r].rewardResult.data =
                         { w \in rewards : w.status = "pending" }
                   /\ \A w \in req[r].rewardResult.data :
                         w.status \notin {"approved", "rejected"} )

\* C26 witness: an admin has rejected a reward, and the other one is pending
C26_Witness ==
    \E r \in Reqs :
        /\ ReviewCall(r)
        /\ req[r].rewardResult.isSuccess
        /\ req[r].session = "ckA"
        /\ req[r].status = "rejected"
        /\ \E w \in rewards : w.id = req[r].targetId /\ w.status = "rejected"
                              /\ w.reviewedBy = "a1"
        /\ \E w \in rewards : w.status = "pending"

\* C27 (as claimed): a reward is created pending, and once it is approved or
\* rejected no later step changes its status, reviewedBy or reviewNotes
C27_ReviewIsFinal ==
    /\ [][ \A w \in rewards' :
              (\A v \in rewards : v.id # w.id) => w.status = "pending" ]_vars
    /\ [][ \A v \in rewards : v.status \in {"approved", "rejected"} =>
              \E w \in rewards' :
                 /\ w.id = v.id
                 /\ w.status = v.status
                 /\ w.reviewedBy = v.reviewedBy
                 /\ w.reviewNotes = v.reviewNotes ]_vars

\* a finished call of one of the two notifications for a referrer
ReferrerNotified(r) ==
    /\ req[r].kind \in {"referralUsed", "rewardApproved"}
    /\ Returned(r)

\* C28 (as claimed): sendReferralUsedNotificationAction and
\* sendRewardApprovedNotificationAction go to the in-app channel for the
\* referrer whatever contact data there is, besides the email and SMS
\* channels that are available
C28_InAppAlwaysCreated ==
    \A r \in Reqs : ReferrerNotified(r) =>
        \/ \E ok \in BOOLEAN : <<"in_app", ok>> \in req[r].channels
        \/ req[r].threw # {}

\* C29 (as claimed): a code generateReferralCode can return passes
\* isValidReferralCodeFormat and the format check of
\* validateReferralCodeAction; displayed by formatReferralCode it matches
\* XXXX-XXXX; and the displayed code without its hyphen is the code again
C29_GeneratedCodesAccepted ==
    \A r \in Reqs : ( req[r].kind = "generated" /\ Returned(r) ) =>
        /\ req[r].codeChecks.format
        /\ req[r].codeChecks.action
        /\ req[r].codeChecks.form
        /\ Len(req[r].codeChecks.displayed) = 9
        /\ StripHyphens(req[r].codeChecks.displayed) = req[r].referralCode

====
